---- MODULE Spec2Model ----
(***************************************************************************)
(* Model of the permission reconciliation engine of DiscordPermissionBot   *)
(* (src/services/sync.py): the plan data model, the identity resolver      *)
(* (_resolve), the plan builder (build_permission_plan), the Differ        *)
(* (diff_permission_plan), the bounded-retry write wrapper                 *)
(* (_set_with_backoff) and the Applier (apply_permission_plan).            *)
(*                                                                         *)
(* Spec       : a built plan is diffed against and applied to the live     *)
(*              overwrites, one awaited platform call per step.            *)
(* SpecApply  : one call of apply_permission_plan.                         *)
(* SpecCancel : an apply that is cut off, and the apply that follows it.   *)
(* SpecBuild  : a plan is built from the Airtable tables and the guild,    *)
(*              one category record or access rule per step.               *)
(* SpecResolve: single calls of _resolve.                                  *)
(* SpecSync   : /preview-permissions and /sync-permissions with the        *)
(*              Airtable client (cogs/permissions.py, airtable_client.py). *)
(* SpecStore  : two threads that change the permission levels of a guild   *)
(*              (services/local_store.py).                                 *)
(* SpecBundle : a bundle of roles is assigned to a member (cogs/roles.py). *)
(*                                                                         *)
(* A permission overwrite is the pair (allow, deny) of flag sets that      *)
(* discord.PermissionOverwrite holds; a flag in neither set is inherited.  *)
(* A channel's live overwrites are a function from the targets that have   *)
(* an overwrite to that overwrite.  channel.overwrites is iterated in      *)
(* ascending target order (the same order for the Differ and the Applier). *)
(* Differ lines carry the identity of their channel and target, where the  *)
(* code prints their display names.                                        *)
(***************************************************************************)
EXTENDS Integers, Sequences, FiniteSets, TLC

VARIABLES
    plan,        \* plan.entries in insertion order: <<[id, entries]>>
    present,     \* ids of guild.channels (channels and categories alive)
    overwrites,  \* overwrites[c]: live overwrites of channel c (target -> overwrite)
    before,      \* the live overwrites when the current apply began
    pc,          \* "idle" | "write" (a set_permissions call is awaited) |
                 \* "returned" (_set_with_backoff has returned) | "done" | "previewed"
    ci,          \* index in plan of the channel being applied
    phase,       \* "remove" (stale cleanup loop) | "set" (planned loop)
    k,           \* index in the stale snapshot or in the entry list
    stale,       \* stale targets of the current channel, snapshot at loop entry
    attempt,     \* attempts already made for the pending write
    sleeps,      \* backoff sleeps already made for the pending write
    delay,       \* the fallback backoff of the pending write
    applied, removed, errors,   \* the three counters of apply_permission_plan
    log,         \* finished writes in order: [ch, kind, target, idx, ok]
    resp,        \* the platform's answer to the latest attempt of the pending write
    lines,       \* output of diff_permission_plan
    pass,        \* 1 or 2: which apply of the same plan is running; 3: the
                 \* apply after one that was cut off with the platform changed
    firstLive,   \* the live overwrites when the first apply returned
    roleRecs, catRecs, chanRecs,        \* the Airtable tables: <<[id, name, discord_id, ...]>>
    guildRoles, guildCats, guildChans,  \* guild.roles, guild.categories, the other channels
    airtable_updates,                   \* plan.airtable_updates
    bi,          \* index of the next category record of the baseline loop
    nrules,      \* access rules processed so far
    rule,        \* the access rule processed last
    at_record,   \* the record of the latest _resolve call
    resolved,    \* the object that call returned (NoneObj for None)
    queued_before, \* len(airtable_updates) when that call began
    configured,  \* guild_config.get(guild_id) returns a configuration
    reachable,   \* the Airtable API answers
    remote,      \* the revision of the tables on Airtable
    mem,         \* AirtableClient._cache: table key -> revision of its records
    disk,        \* airtable_cache.json: table key -> revision of its records
    cmd,         \* "none" | "preview" | "sync": the slash command that is running
    cpc,         \* where that command is: "idle" | the key of the table fetched
                 \* next | "baseline" | "rules" | "built" | "flush" | "replied" |
                 \* "raised" (RuntimeError caught by the command)
    origin,      \* table key -> where this command's records of it came from
    sent,        \* updates flush_updates has attempted: <<[update, ok]>>
    store_file,  \* data/{guild_id}/permission_levels.json: NoFile or [data, complete]
    store_tmp,   \* thread -> the temporary file its _save has made, or NoFile
    store_lock,  \* the thread that holds _locks[guild_id], or 0
    tpc,         \* thread -> where its local_store call is
    store_op,    \* thread -> the mutating call it makes
    store_levels,  \* thread -> the dict its call has loaded and modified
    lock_order,  \* the threads in the order they entered "with _get_lock(guild_id)"
    store_start, \* the levels of the guild before the calls
    reader_seen, \* what the latest get_permission_levels without lock returned
    member_roles,  \* member.roles (role names)
    bundle_roles,  \* the bundle_roles argument of _apply_bundle
    to_remove,   \* the to_remove list of _apply_bundle
    bpc,         \* where _apply_bundle is
    clients,     \* airtable_client._clients: guild -> AirtableClient or NoClient
    config_file, \* guild -> the content of data/{guild_id}/config.json, or NoConfig
    instances,   \* AirtableClient objects constructed so far
    handed,      \* guild -> the instances get_airtable returned since the last
                 \* reset_client for the guild
    reg_last,    \* the latest registry operation: [op, guild, ok, token, base_id]
    signals,     \* the retry_after of each rate-limit signal of the pending write
    slept,       \* the length of each asyncio.sleep(retry_after) of the pending write
    calls,       \* set_permissions calls awaited since the apply began
    imp_guild,   \* table key -> the Discord objects _run_import hands to _reconcile
    imp_tables,  \* table key -> the records of the Airtable table
    imp_runs     \* per finished _run_import: table key -> the counts _reconcile returned

applyVars == <<pc, ci, phase, k, stale, attempt, sleeps, delay,
               applied, removed, errors, log, resp, pass, firstLive, before>>
recVars == <<roleRecs, catRecs, chanRecs, guildRoles, guildCats, guildChans>>
buildVars == <<airtable_updates, bi, nrules, rule>>
resolveVars == <<at_record, resolved, queued_before>>
cmdVars == <<configured, reachable, remote, mem, disk, cmd, cpc, origin, sent>>
storeVars == <<store_file, store_tmp, store_lock, tpc, store_op, store_levels,
               lock_order, store_start, reader_seen>>
bundleVars == <<member_roles, bundle_roles, to_remove, bpc>>
registryVars == <<clients, config_file, instances, handed, reg_last>>
backoffVars == <<signals, slept>>
termVars == <<calls>>
importVars == <<imp_guild, imp_tables, imp_runs>>
lateVars == <<registryVars, backoffVars, termVars, importVars>>
outerVars == <<cmdVars, storeVars, bundleVars, lateVars>>
vars == <<plan, present, overwrites, lines, applyVars, recVars, buildVars, resolveVars,
          outerVars>>

----------------------------------------------------------------------------
(* Bounds of the model *)

Channels == {1, 2}        \* channel and category ids
Targets == {1, 2}         \* role ids (1 is the @everyone role)
MaxPlanEntries == 2    \* total number of OverwriteEntry in a plan


(* Program constants *)
max_retries == 3

Flags == {"view_channel", "send_messages"}

Overwrite(a, d) == [allow |-> a, deny |-> d]

\* the overwrites the plans and the live state of the apply model draw from
ApplyOverwrites ==
    { Overwrite({"view_channel", "send_messages"}, {}),
      Overwrite({"view_channel"}, {"send_messages"}) }

OverwriteEntry(t, o, src) == [target |-> t, overwrite |-> o, source |-> src]

----------------------------------------------------------------------------
(* Helpers on sequences *)

RECURSIVE SortedSeq(_)
SortedSeq(S) ==
    IF S = {} THEN <<>>
    ELSE LET m == CHOOSE x \in S : \A y \in S : x <= y
         IN <<m>> \o SortedSeq(S \ {m})

RECURSIVE SumLen(_)
SumLen(p) == IF p = <<>> THEN 0 ELSE Len(p[1].entries) + SumLen(Tail(p))

----------------------------------------------------------------------------
(* Applier: apply_permission_plan and _set_with_backoff *)

\* planned_targets = {entry.target for entry in entries}
PlannedTargets(entries) == {entries[i].target : i \in DOMAIN entries}

\* mutant: the stale cleanup loop is left out
StaleTargetsNone(owmap, entries) == <<>>

\* mutant: only the first entry's target counts as planned
StaleTargetsFirstEntry(owmap, entries) ==
    SelectSeq(SortedSeq(DOMAIN owmap), LAMBDA t : t # entries[1].target)

\* mutant: every live overwrite is removed before the entries are written
StaleTargetsAll(owmap, entries) == SortedSeq(DOMAIN owmap)

\* the targets of list(channel.overwrites) that are not in planned_targets
StaleTargets(owmap, entries) ==
    SelectSeq(SortedSeq(DOMAIN owmap), LAMBDA t : t \notin PlannedTargets(entries))

\* mutant: a channel that is not live is not skipped
NextLiveNoSkip(p, live, i) == i

\* channels_by_id.get(target_id): the next plan index from i whose channel is live
RECURSIVE NextLive(_, _, _)
NextLive(p, live, i) ==
    IF i > Len(p) THEN i
    ELSE IF p[i].id \in live THEN i
    ELSE NextLive(p, live, i + 1)

\* the write pending at the current position: the channel, the target and
\* the overwrite handed to _set_with_backoff (NoOverwrite: overwrite=None)
NoOverwrite == Overwrite({"none"}, {"none"})

\* mutant: the write goes to a channel other than the one of the plan entry
CurrentWriteElsewhere ==
    IF phase = "remove"
    THEN [ch |-> 3 - plan[ci].id, kind |-> "remove", target |-> stale[k], idx |-> k,
          overwrite |-> NoOverwrite]
    ELSE [ch |-> 3 - plan[ci].id, kind |-> "set", target |-> plan[ci].entries[k].target,
          idx |-> k, overwrite |-> plan[ci].entries[k].overwrite]

CurrentWrite ==
    IF phase = "remove"
    THEN [ch |-> plan[ci].id, kind |-> "remove", target |-> stale[k], idx |-> k,
          overwrite |-> NoOverwrite]
    ELSE [ch |-> plan[ci].id, kind |-> "set", target |-> plan[ci].entries[k].target,
          idx |-> k, overwrite |-> plan[ci].entries[k].overwrite]

\* channel.set_permissions(target, overwrite=...) accepted by the platform
SetPermissions(owmap, t, o) ==
    IF o = NoOverwrite
    THEN [x \in DOMAIN owmap \ {t} |-> owmap[x]]
    ELSE [x \in DOMAIN owmap \cup {t} |-> IF x = t THEN o ELSE owmap[x]]


\* mutant: range(max_retries + 1)
WriteEndsOffByOne(r, att) == r # "rate_limited" \/ att + 1 > max_retries

\* mutant: every failed call is retried, not only a rate-limited one
WriteEndsRetryAll(r, att) == r = "ok" \/ att + 1 >= max_retries

\* mutant: the loop runs twice max_retries times
WriteEndsDoubleCeiling(r, att) == r # "rate_limited" \/ att + 1 >= 2 * max_retries

\* _set_with_backoff gives up: any answer but a rate limit ends the write,
\* and so does the max_retries-th attempt (for attempt in range(max_retries))
WriteEnds(r, att) == r # "rate_limited" \/ att + 1 >= max_retries

\* ok of "ok = await _set_with_backoff(...)": True only from a successful call
WriteOk(r) == r = "ok"

\* mutant: the backoff sleep runs after every call
SleepsAfterAlways(r, n) == n + 1

\* asyncio.sleep(retry_after) runs on every rate-limit signal
SleepsAfter(r, n) == IF r = "rate_limited" THEN n + 1 ELSE n

\* mutant: a removal is counted whether or not it succeeded
RemovedAfterAny(kind, ok, n) == IF kind = "remove" THEN n + 1 ELSE n

\* mutant: a failed write is not counted
ErrorsAfterNone(ok, n) == n

\* "if ok: removed += 1 / applied += 1 ... else: errors += 1"
AppliedAfter(kind, ok, n) == IF kind = "set" /\ ok THEN n + 1 ELSE n
RemovedAfter(kind, ok, n) == IF kind = "remove" /\ ok THEN n + 1 ELSE n
ErrorsAfter(ok, n) == IF ok THEN n ELSE n + 1

\* entering plan index j: "channel = channels_by_id.get(target_id)", the
\* snapshot list(channel.overwrites) and the first write of that channel
EnterChannel(j, owm) ==
    IF j > Len(plan)
    THEN [pc |-> "done", ci |-> j, phase |-> "set", k |-> 0, stale |-> <<>>]
    ELSE LET st == StaleTargets(owm[plan[j].id], plan[j].entries)
         IN [pc |-> "write", ci |-> j,
             phase |-> IF st = <<>> THEN "set" ELSE "remove",
             k |-> 1, stale |-> st]

\* mutant: after the stale loop the entries are written last to first
NextPosDescending(ok, owm) ==
    IF phase = "remove" /\ k < Len(stale)
    THEN [pc |-> "write", ci |-> ci, phase |-> "remove", k |-> k + 1, stale |-> stale]
    ELSE IF phase = "remove"
    THEN [pc |-> "write", ci |-> ci, phase |-> "set", k |-> Len(plan[ci].entries),
          stale |-> stale]
    ELSE IF k > 1 /\ stale # <<>>
    THEN [pc |-> "write", ci |-> ci, phase |-> "set", k |-> k - 1, stale |-> stale]
    ELSE EnterChannel(NextLive(plan, present, ci + 1), owm)

\* mutant: a failed write ends the pass
NextPosAbort(ok, owm) ==
    IF ~ok
    THEN [pc |-> "done", ci |-> Len(plan) + 1, phase |-> "set", k |-> 0, stale |-> <<>>]
    ELSE IF phase = "remove" /\ k < Len(stale)
    THEN [pc |-> "write", ci |-> ci, phase |-> "remove", k |-> k + 1, stale |-> stale]
    ELSE IF phase = "remove"
    THEN [pc |-> "write", ci |-> ci, phase |-> "set", k |-> 1, stale |-> stale]
    ELSE IF k < Len(plan[ci].entries)
    THEN [pc |-> "write", ci |-> ci, phase |-> "set", k |-> k + 1, stale |-> stale]
    ELSE EnterChannel(NextLive(plan, present, ci + 1), owm)

\* the position after the pending write has finished, whatever its result ok
\* (neither loop breaks or raises on a failed write): the rest of the stale
\* loop, then the entries loop, then the next channel of plan.entries.items()
NextPos(ok, owm) ==
    IF phase = "remove" /\ k < Len(stale)
    THEN [pc |-> "write", ci |-> ci, phase |-> "remove", k |-> k + 1, stale |-> stale]
    ELSE IF phase = "remove"
    THEN [pc |-> "write", ci |-> ci, phase |-> "set", k |-> 1, stale |-> stale]
    ELSE IF k < Len(plan[ci].entries)
    THEN [pc |-> "write", ci |-> ci, phase |-> "set", k |-> k + 1, stale |-> stale]
    ELSE EnterChannel(NextLive(plan, present, ci + 1), owm)

\* mutant: a pass that follows a cancelled one goes on where that one was cut
PassStartWhereCut == IF pc = "cancelled" THEN ci ELSE 1

\* "for target_id, entries in plan.entries.items()": every pass starts at the
\* first channel of the plan
PassStart == 1

\* the first lines of apply_permission_plan: counters at 0, first channel
StartApply ==
    LET np == EnterChannel(NextLive(plan, present, PassStart), overwrites)
    IN /\ pc' = np.pc /\ ci' = np.ci /\ phase' = np.phase /\ k' = np.k
       /\ stale' = np.stale
       /\ attempt' = 0 /\ sleeps' = 0 /\ delay' = 1 /\ resp' = "none"
       /\ applied' = 0 /\ removed' = 0 /\ errors' = 0
       /\ log' = <<>>
       /\ before' = overwrites
       /\ UNCHANGED <<plan, present, overwrites, lines, recVars, outerVars, resolveVars, buildVars>>

\* /sync-permissions: apply_permission_plan(plan, guild) is called
Apply ==
    /\ pc = "idle"
    /\ pass' = 1
    /\ firstLive' = firstLive
    /\ StartApply

\* the same plan is applied a second time, right after a first apply that
\* returned without a failed write
ApplyAgain ==
    /\ pc = "done"
    /\ pass = 1
    /\ errors = 0
    /\ pass' = 2
    /\ firstLive' = overwrites
    /\ StartApply

\* one awaited channel.set_permissions call of _set_with_backoff, answered by
\* the platform with r, and what the wrapper does with the answer: pace and
\* return True, back off and retry, or return False
AttemptEffect(r) ==
    /\ pc = "write"
    /\ LET w == CurrentWrite
       IN overwrites' = IF r = "ok"
                        THEN [overwrites EXCEPT
                                ![w.ch] = SetPermissions(@, w.target, w.overwrite)]
                        ELSE overwrites
    /\ resp' = r
    /\ attempt' = attempt + 1
    /\ sleeps' = SleepsAfter(r, sleeps)
    /\ delay' = IF r = "rate_limited" THEN delay * 2 ELSE delay
    /\ pc' = IF WriteEnds(r, attempt) THEN "returned" ELSE "write"
    /\ UNCHANGED <<plan, present, lines, pass, firstLive, before,
                   ci, phase, k, stale, applied, removed, errors, log>>

\* an attempt whose rate-limit signal carries no retry_after
Attempt(r) ==
    /\ AttemptEffect(r)
    /\ UNCHANGED <<recVars, outerVars, resolveVars, buildVars>>

\* _set_with_backoff has returned ok: apply_permission_plan counts the write
\* and moves to the next iteration of its loops
Count ==
    /\ pc = "returned"
    /\ LET w == CurrentWrite
           ok == WriteOk(resp)
           np == NextPos(ok, overwrites)
       IN /\ pc' = np.pc /\ ci' = np.ci /\ phase' = np.phase /\ k' = np.k
          /\ stale' = np.stale
          /\ applied' = AppliedAfter(w.kind, ok, applied)
          /\ removed' = RemovedAfter(w.kind, ok, removed)
          /\ errors' = ErrorsAfter(ok, errors)
          /\ log' = Append(log, [ch |-> w.ch, kind |-> w.kind,
                                 target |-> w.target, idx |-> w.idx, ok |-> ok])
    /\ attempt' = 0 /\ sleeps' = 0 /\ delay' = 1 /\ resp' = "none"
    /\ UNCHANGED <<plan, present, overwrites, lines, pass, firstLive, before>>
    /\ UNCHANGED <<recVars, outerVars, resolveVars, buildVars>>

----------------------------------------------------------------------------
(* Differ: diff_permission_plan *)

Line(m, c, t, i) == [marker |-> m, ch |-> c, target |-> t, idx |-> i]

\* a Differ that calls an entry unchanged as soon as its target has an overwrite
ChannelLinesPresentOnly(e, live, owm) ==
    IF e.id \notin live
    THEN << Line("notfound", e.id, 0, 0) >>
    ELSE LET st == StaleTargets(owm[e.id], e.entries)
         IN [i \in 1..Len(st) |-> Line("stale", e.id, st[i], 0)] \o
            [i \in 1..Len(e.entries) |->
                Line(IF e.entries[i].target \in DOMAIN owm[e.id]
                     THEN "unchanged" ELSE "changed",
                     e.id, e.entries[i].target, i)]

\* a Differ that lists the planned entries of a channel before its stale overwrites
ChannelLinesEntriesFirst(e, live, owm) ==
    IF e.id \notin live
    THEN << Line("notfound", e.id, 0, 0) >>
    ELSE LET st == StaleTargets(owm[e.id], e.entries)
             cur == owm[e.id]
         IN [i \in 1..Len(e.entries) |->
                Line(IF e.entries[i].target \in DOMAIN cur
                        /\ cur[e.entries[i].target] = e.entries[i].overwrite
                     THEN "unchanged" ELSE "changed",
                     e.id, e.entries[i].target, i)] \o
            [i \in 1..Len(st) |-> Line("stale", e.id, st[i], 0)]

\* a Differ that warns once per planned entry of a channel that is not found
ChannelLinesWarnPerEntry(e, live, owm) ==
    IF e.id \notin live
    THEN [i \in 1..Len(e.entries) |-> Line("notfound", e.id, 0, 0)]
    ELSE LET st == StaleTargets(owm[e.id], e.entries)
             cur == owm[e.id]
         IN [i \in 1..Len(st) |-> Line("stale", e.id, st[i], 0)] \o
            [i \in 1..Len(e.entries) |->
                Line(IF e.entries[i].target \in DOMAIN cur
                        /\ cur[e.entries[i].target] = e.entries[i].overwrite
                     THEN "unchanged" ELSE "changed",
                     e.id, e.entries[i].target, i)]

\* the lines of one plan channel: not found, or stale lines then entry lines
ChannelLines(e, live, owm) ==
    IF e.id \notin live
    THEN << Line("notfound", e.id, 0, 0) >>
    ELSE LET st == StaleTargets(owm[e.id], e.entries)
             cur == owm[e.id]
         IN [i \in 1..Len(st) |-> Line("stale", e.id, st[i], 0)] \o
            [i \in 1..Len(e.entries) |->
                Line(IF e.entries[i].target \in DOMAIN cur
                        /\ cur[e.entries[i].target] = e.entries[i].overwrite
                     THEN "unchanged" ELSE "changed",
                     e.id, e.entries[i].target, i)]

RECURSIVE DiffLines(_, _, _)
DiffLines(p, live, owm) ==
    IF p = <<>> THEN <<>>
    ELSE ChannelLines(p[1], live, owm) \o DiffLines(Tail(p), live, owm)

\* /preview-permissions: diff_permission_plan(plan, guild)
Diff ==
    /\ pc \in {"idle", "done"}
    /\ lines' = DiffLines(plan, present, overwrites)
    /\ pc' = "previewed"
    /\ UNCHANGED <<plan, present, overwrites, ci, phase, k, stale, attempt, sleeps,
                   delay, applied, removed, errors, log, resp, pass, firstLive, before>>
    /\ UNCHANGED <<recVars, outerVars, resolveVars, buildVars>>

----------------------------------------------------------------------------
(* The plans and live states the apply model starts from *)

\* PermissionPlan.add: entries.setdefault(target_id, []).append(entry)
PlanAdd(p, c, e) ==
    IF \E i \in DOMAIN p : p[i].id = c
    THEN [i \in DOMAIN p |->
            IF p[i].id = c THEN [p[i] EXCEPT !.entries = Append(@, e)] ELSE p[i]]
    ELSE Append(p, [id |-> c, entries |-> <<e>>])

RECURSIVE PlanOfAdds(_)
PlanOfAdds(adds) ==
    IF adds = <<>> THEN <<>>
    ELSE LET n == Len(adds)
         IN PlanAdd(PlanOfAdds(SubSeq(adds, 1, n - 1)), adds[n].ch, adds[n].entry)

Adds ==
    [ch : Channels,
     entry : {OverwriteEntry(t, o, <<"rule">>) : t \in Targets, o \in ApplyOverwrites}]

\* Channel ids are interchangeable: the first add goes to the channel with the
\* greatest id, so that insertion order is never the order of the ids.
FirstChannel == CHOOSE c \in Channels : \A d \in Channels : d <= c

Plans ==
    {PlanOfAdds(s) : s \in {a \in UNION {[1..n -> Adds] : n \in 1..MaxPlanEntries} :
                              a[1].ch = FirstChannel}}

NoRule == [roles |-> <<>>, scope |-> "", categories |-> <<>>, channels |-> <<>>,
           level |-> "", overwrite |-> "Allow"]

\* the apply model starts from a plan that is already built
NoRecords ==
    /\ roleRecs = <<>> /\ catRecs = <<>> /\ chanRecs = <<>>
    /\ guildRoles = <<>> /\ guildCats = <<>> /\ guildChans = <<>>
    /\ airtable_updates = <<>>
    /\ bi = 0 /\ nrules = 0 /\ rule = NoRule

\* no _resolve call has been made
NoCall ==
    /\ at_record = [id |-> "", name |-> "", discord_id |-> ""]
    /\ resolved = [id |-> 0, name |-> ""]
    /\ queued_before = 0

Keys == {"roles", "categories", "channels", "access_rules"}

\* a dict without keys
Empty == [x \in {} |-> "rev1"]

\* no slash command is running
NoCommand ==
    /\ cmd = "none" /\ cpc = "idle"
    /\ origin = [key \in Keys |-> "none"]
    /\ sent = <<>>

\* the threads of the process that call local_store
Threads == {1, 2}

\* a path at which there is no file
NoFile == [exists |-> FALSE, data |-> Empty, complete |-> FALSE]

NoOp == [name |-> "none"]

\* no local_store call is made
NoStore ==
    /\ store_file = NoFile
    /\ store_tmp = [t \in Threads |-> NoFile]
    /\ store_lock = 0
    /\ tpc = [t \in Threads |-> "idle"]
    /\ store_op = [t \in Threads |-> NoOp]
    /\ store_levels = [t \in Threads |-> Empty]
    /\ lock_order = <<>>
    /\ store_start = Empty
    /\ reader_seen = [data |-> Empty, raised |-> FALSE]

\* no bundle is assigned
NoBundle ==
    /\ member_roles = {} /\ bundle_roles = {} /\ to_remove = {}
    /\ bpc = "idle"

\* the guilds the bot is a member of
Guilds == {1, 2}

\* guild_id not in _clients
NoClient == [serial |-> 0, token |-> <<>>, base_id |-> <<>>, cache |-> Empty]

\* guild_config.get(guild_id) returns None
NoConfig == [airtable_token |-> <<>>, airtable_base_id |-> <<>>]

\* the registry is not looked at
NoRegistry ==
    /\ clients = [g \in Guilds |-> NoClient]
    /\ config_file = [g \in Guilds |-> NoConfig]
    /\ instances = 0
    /\ handed = [g \in Guilds |-> {}]
    /\ reg_last = [op |-> "none", guild |-> 0, ok |-> TRUE,
                   token |-> <<>>, base_id |-> <<>>]

\* the backoff sleeps are not looked at
NoBackoff == signals = <<>> /\ slept = <<>>

\* the tables _run_import reconciles, in the order it does
ImportKinds == <<"roles", "categories", "channels">>

ImportKeys == {ImportKinds[i] : i \in DOMAIN ImportKinds}

\* no import has run
NoImport ==
    /\ imp_guild = [key \in ImportKeys |-> <<>>]
    /\ imp_tables = [key \in ImportKeys |-> <<>>]
    /\ imp_runs = <<>>

\* nothing of the setup commands is in use
NoLate ==
    /\ NoRegistry
    /\ NoBackoff
    /\ calls = 0
    /\ NoImport

\* the plan is given: no Airtable client is in use
NoOuter ==
    /\ NoCommand
    /\ NoStore
    /\ NoBundle
    /\ NoLate
    /\ configured = TRUE /\ reachable = TRUE /\ remote = "rev1"
    /\ mem = Empty /\ disk = Empty

\* the overwrite maps a live channel can hold
LiveMaps == UNION {[D -> ApplyOverwrites] : D \in SUBSET Targets}

Init ==
    /\ plan \in Plans
    /\ present \in SUBSET Channels
    /\ overwrites \in [Channels -> LiveMaps]
    /\ \A c \in Channels \ present : DOMAIN overwrites[c] = {}
    /\ before = overwrites
    /\ firstLive = overwrites
    /\ pc = "idle" /\ ci = 0 /\ phase = "set" /\ k = 0 /\ stale = <<>>
    /\ attempt = 0 /\ sleeps = 0 /\ delay = 1
    /\ applied = 0 /\ removed = 0 /\ errors = 0
    /\ log = <<>> /\ resp = "none"
    /\ lines = <<>>
    /\ pass = 1
    /\ NoRecords
    /\ NoCall
    /\ NoOuter

Responses == {"ok", "rate_limited", "http_error"}

Next ==
    \/ Apply
    \/ ApplyAgain
    \/ \E r \in Responses : Attempt(r)
    \/ Count
    \/ Diff

Spec == Init /\ [][Next]_vars

\* one call of apply_permission_plan, from its first line to its return
NextApply ==
    \/ Apply
    \/ \E r \in Responses : Attempt(r)
    \/ Count

SpecApply == Init /\ [][NextApply]_vars


----------------------------------------------------------------------------
(* An apply that is cut off, and the pass that follows it *)

\* the task running apply_permission_plan is cancelled, or the process dies,
\* while a set_permissions call or a sleep of _set_with_backoff is awaited:
\* nothing is rolled back, a request in flight has reached the platform or
\* not, and the counters and loop variables of the call are gone
Cancel ==
    /\ pc = "write"
    /\ pass = 1
    /\ \E landed \in BOOLEAN :
          overwrites' = IF landed
                        THEN [overwrites EXCEPT ![CurrentWrite.ch] =
                                SetPermissions(@, CurrentWrite.target, CurrentWrite.overwrite)]
                        ELSE overwrites
    /\ pc' = "cancelled"
    /\ phase' = "set" /\ k' = 0 /\ stale' = <<>>
    /\ attempt' = 0 /\ sleeps' = 0 /\ delay' = 1 /\ resp' = "none"
    /\ applied' = 0 /\ removed' = 0 /\ errors' = 0
    /\ log' = <<>>
    /\ UNCHANGED <<plan, present, lines, pass, firstLive, before, ci>>
    /\ UNCHANGED <<recVars, outerVars, resolveVars, buildVars>>

\* the next /sync-permissions, with the same records and the platform as the
\* cut-off apply left it: the same plan is applied from its beginning
ApplyAfterCancel ==
    /\ pc = "cancelled"
    /\ pass' = IF overwrites = firstLive THEN 2 ELSE 3
    /\ firstLive' = overwrites
    /\ StartApply

\* the platform accepts a call or refuses it; the pass that follows the cut is
\* followed for as long as none of its writes has failed
NextCancel ==
    \/ Apply
    \/ \E r \in (IF pass = 1 THEN {"ok", "http_error"} ELSE {"ok"}) : Attempt(r)
    \/ Count
    \/ Cancel
    \/ ApplyAfterCancel

SpecCancel == Init /\ [][NextCancel]_vars

----------------------------------------------------------------------------
(* Permission levels: level_to_overwrite *)

\* local_store.get_permission_levels: {level: {attr: True | False}}
PermissionLevels(name) ==
    CASE name = "Chat" -> [f \in {"view_channel", "send_messages"} |-> TRUE]
      [] name = "ReadOnly" ->
            [f \in {"view_channel", "send_messages"} |-> f = "view_channel"]
      [] name = "Muted" -> [f \in {"send_messages"} |-> FALSE]
      [] OTHER -> [f \in {} |-> TRUE]

\* levels.get(level_name, {}) as a PermissionOverwrite: True allows, False
\* denies, a missing key is inherited
level_to_overwrite(name) ==
    LET perms == PermissionLevels(name)
    IN Overwrite({f \in DOMAIN perms : perms[f]}, {f \in DOMAIN perms : ~perms[f]})

\* a flip that turns allows into denies and drops the level's denies
FinalOverwriteDropsDenies(base, dir) ==
    IF dir = "Deny" THEN Overwrite({}, base.allow) ELSE base

\* "Deny rules flip every explicit allow -> explicit deny" (and deny -> allow)
FinalOverwrite(base, dir) ==
    IF dir = "Deny" THEN Overwrite(base.deny, base.allow) ELSE base

----------------------------------------------------------------------------
(* Identity resolver: _resolve *)

NoneObj == [id |-> 0, name |-> ""]

\* int(discord_id_str): the value of a digit string; ValueError otherwise
DigitStrings == {"0", "1", "2", "3", "9"}
IntOf(str) ==
    CASE str = "0" -> 0 [] str = "1" -> 1 [] str = "2" -> 2
      [] str = "3" -> 3 [] str = "9" -> 9

\* str(obj.id)
StrOf(n) ==
    CASE n = 0 -> "0" [] n = 1 -> "1" [] n = 2 -> "2" [] n = 3 -> "3" [] n = 9 -> "9"

\* {o.id: o for o in objs}.get(n): the last object of the list with that id
ById(objs, n) ==
    IF \E i \in DOMAIN objs : objs[i].id = n
    THEN objs[CHOOSE i \in DOMAIN objs :
                 objs[i].id = n /\ \A j \in DOMAIN objs : objs[j].id = n => j <= i]
    ELSE NoneObj

\* {o.name: o for o in objs}.get(nm): the last object of the list with that name
ByName(objs, nm) ==
    IF \E i \in DOMAIN objs : objs[i].name = nm
    THEN objs[CHOOSE i \in DOMAIN objs :
                 objs[i].name = nm /\ \A j \in DOMAIN objs : objs[j].name = nm => j <= i]
    ELSE NoneObj

Update(table, rec, fld, val) == [table |-> table, rec |-> rec, field |-> fld, value |-> val]

\* the result of the name fallback of _resolve ("obj = by_name.get(at_name)")
NameFallback(rec, objs, table) ==
    IF rec.name = ""
    THEN [obj |-> NoneObj, updates |-> <<>>]
    ELSE LET obj == ByName(objs, rec.name)
         IN IF obj # NoneObj
            THEN [obj |-> obj,
                  updates |-> << Update(table, rec.id, "discord_id", StrOf(obj.id)) >>]
            ELSE [obj |-> NoneObj, updates |-> <<>>]

\* a resolver that corrects the stored name whether it has drifted or not
ResolveAlwaysCorrects(rec, objs, table) ==
    LET discord_id == IF rec.discord_id \in DigitStrings THEN IntOf(rec.discord_id) ELSE 0
    IN IF rec.discord_id # "" /\ discord_id # 0
       THEN LET obj == ById(objs, discord_id)
            IN IF obj # NoneObj
               THEN [obj |-> obj,
                     updates |-> << Update(table, rec.id, "name", obj.name) >>]
               ELSE [obj |-> NoneObj, updates |-> <<>>]
       ELSE NameFallback(rec, objs, table)

\* a resolver whose name fallback queues no identifier backfill
ResolveNoBackfill(rec, objs, table) ==
    LET discord_id == IF rec.discord_id \in DigitStrings THEN IntOf(rec.discord_id) ELSE 0
    IN IF rec.discord_id # "" /\ discord_id # 0
       THEN LET obj == ById(objs, discord_id)
            IN IF obj # NoneObj
               THEN [obj |-> obj,
                     updates |-> IF obj.name # rec.name
                                 THEN << Update(table, rec.id, "name", obj.name) >>
                                 ELSE <<>>]
               ELSE [obj |-> NoneObj, updates |-> <<>>]
       ELSE [obj |-> NameFallback(rec, objs, table).obj, updates |-> <<>>]

\* a resolver that falls back to the name when the identifier is not found
ResolveFallsBack(rec, objs, table) ==
    LET discord_id == IF rec.discord_id \in DigitStrings THEN IntOf(rec.discord_id) ELSE 0
        obj == ById(objs, discord_id)
    IN IF rec.discord_id # "" /\ discord_id # 0 /\ obj # NoneObj
       THEN [obj |-> obj,
             updates |-> IF obj.name # rec.name
                         THEN << Update(table, rec.id, "name", obj.name) >>
                         ELSE <<>>]
       ELSE NameFallback(rec, objs, table)

\* a resolver that gives up on an identifier that does not parse
ResolveInvalidSkips(rec, objs, table) ==
    LET discord_id == IF rec.discord_id \in DigitStrings THEN IntOf(rec.discord_id) ELSE 0
    IN IF rec.discord_id # "" /\ discord_id # 0
       THEN LET obj == ById(objs, discord_id)
            IN IF obj # NoneObj
               THEN [obj |-> obj,
                     updates |-> IF obj.name # rec.name
                                 THEN << Update(table, rec.id, "name", obj.name) >>
                                 ELSE <<>>]
               ELSE [obj |-> NoneObj, updates |-> <<>>]
       ELSE IF rec.discord_id # ""
       THEN [obj |-> NoneObj, updates |-> <<>>]
       ELSE NameFallback(rec, objs, table)

\* _resolve(at_record, ..., by_discord_id, by_name, table_key, ...): the object
\* it returns and the updates it appends to airtable_updates
Resolve(rec, objs, table) ==
    LET discord_id == IF rec.discord_id \in DigitStrings THEN IntOf(rec.discord_id) ELSE 0
    IN IF rec.discord_id # "" /\ discord_id # 0
       THEN LET obj == ById(objs, discord_id)
            IN IF obj # NoneObj
               THEN [obj |-> obj,
                     updates |-> IF obj.name # rec.name
                                 THEN << Update(table, rec.id, "name", obj.name) >>
                                 ELSE <<>>]
               ELSE [obj |-> NoneObj, updates |-> <<>>]
       ELSE IF rec.name = ""
       THEN [obj |-> NoneObj, updates |-> <<>>]
       ELSE LET obj == ByName(objs, rec.name)
            IN IF obj # NoneObj
               THEN [obj |-> obj,
                     updates |-> << Update(table, rec.id, "discord_id", StrOf(obj.id)) >>]
               ELSE [obj |-> NoneObj, updates |-> <<>>]

----------------------------------------------------------------------------
(* One resolver at work: calls of _resolve on role records *)

\* the role records a call is made on: no identifier, an identifier that does
\* not parse, "0", the identifier of a live role, the identifier of a deleted one
ResolveRecChoices ==
    [id : {"r1", "r2"}, name : {"", "Mods", "Old"}, discord_id : {"", "x", "0", "2", "9"}]

\* guild.roles: distinct names, a duplicated name, no role the records name
Rosters ==
    { << [id |-> 1, name |-> "@everyone"], [id |-> 2, name |-> "Mods"],
         [id |-> 3, name |-> "Staff"] >>,
      << [id |-> 1, name |-> "@everyone"], [id |-> 2, name |-> "Mods"],
         [id |-> 3, name |-> "Mods"] >>,
      << [id |-> 1, name |-> "@everyone"], [id |-> 3, name |-> "Old"] >> }

MaxQueued == 2     \* updates queued before the pass stops resolving

\* _resolve(rec, "Discord ID", "Role Name", role_by_discord_id, role_by_name,
\*          "roles", plan.airtable_updates, "role")
ResolveCall(rec) ==
    /\ pc \in {"resolve", "resolved"}
    /\ Len(airtable_updates) < MaxQueued
    /\ LET r == Resolve(rec, guildRoles, "roles")
       IN /\ resolved' = r.obj
          /\ airtable_updates' = airtable_updates \o r.updates
    /\ at_record' = rec
    /\ queued_before' = Len(airtable_updates)
    /\ pc' = "resolved"
    /\ UNCHANGED <<plan, present, overwrites, lines, recVars, outerVars, bi, nrules, rule>>
    /\ UNCHANGED <<ci, phase, k, stale, attempt, sleeps, delay, applied, removed,
                   errors, log, resp, pass, firstLive, before>>

InitResolve ==
    /\ guildRoles \in Rosters
    /\ guildCats = <<>> /\ guildChans = <<>>
    /\ roleRecs = <<>> /\ catRecs = <<>> /\ chanRecs = <<>>
    /\ present = {}
    /\ overwrites = [c \in Channels |-> [t \in {} |-> NoOverwrite]]
    /\ before = overwrites
    /\ firstLive = overwrites
    /\ plan = <<>>
    /\ airtable_updates = <<>>
    /\ bi = 0 /\ nrules = 0 /\ rule = NoRule
    /\ pc = "resolve" /\ ci = 0 /\ phase = "set" /\ k = 0 /\ stale = <<>>
    /\ attempt = 0 /\ sleeps = 0 /\ delay = 1
    /\ applied = 0 /\ removed = 0 /\ errors = 0
    /\ log = <<>> /\ resp = "none"
    /\ lines = <<>>
    /\ pass = 1
    /\ NoCall
    /\ NoOuter

NextResolve == \E rec \in ResolveRecChoices : ResolveCall(rec)

SpecResolve == InitResolve /\ [][NextResolve]_vars

\* the updates the latest _resolve call appended to airtable_updates
Queued == SubSeq(airtable_updates, queued_before + 1, Len(airtable_updates))

\* int(discord_id_str) succeeds and the value is truthy
ValidId(rec) == rec.discord_id \in DigitStrings /\ IntOf(rec.discord_id) # 0

\* the live roles with identifier n / with name nm
LiveWithId(n) == {guildRoles[i] : i \in {j \in DOMAIN guildRoles : guildRoles[j].id = n}}
LiveWithName(nm) == {guildRoles[i] : i \in {j \in DOMAIN guildRoles : guildRoles[j].name = nm}}

----------------------------------------------------------------------------
(* Plan builder: build_permission_plan *)

\* airtable.roles_by_id() / categories_by_id() / channels_by_id(): .get(ref)
NoneRec == [id |-> "", name |-> "", discord_id |-> "", baseline |-> ""]
RecById(recs, ref) ==
    IF \E i \in DOMAIN recs : recs[i].id = ref
    THEN recs[CHOOSE i \in DOMAIN recs :
                 recs[i].id = ref /\ \A j \in DOMAIN recs : recs[j].id = ref => j <= i]
    ELSE NoneRec

\* "for ref in refs: rec = by_id.get(ref) ... obj = _resolve(rec, ...)": the
\* objects resolved, in order, and the updates queued while resolving
RECURSIVE ResolveRefs(_, _, _, _)
ResolveRefs(refs, recs, objs, table) ==
    IF refs = <<>> THEN [objs |-> <<>>, updates |-> <<>>]
    ELSE LET rec == RecById(recs, Head(refs))
             rest == ResolveRefs(Tail(refs), recs, objs, table)
         IN IF rec = NoneRec THEN rest
            ELSE LET r == Resolve(rec, objs, table)
                 IN [objs |-> (IF r.obj # NoneObj THEN <<r.obj>> ELSE <<>>) \o rest.objs,
                     updates |-> r.updates \o rest.updates]

\* "for target in targets: plan.add(target.id, OverwriteEntry(discord_role, ...))"
RECURSIVE AddTargets(_, _, _, _, _)
AddTargets(p, role, targets, ow, label) ==
    IF targets = <<>> THEN p
    ELSE AddTargets(PlanAdd(p, Head(targets).id,
                            OverwriteEntry(role.id, ow, <<role.name>> \o label)),
                    role, Tail(targets), ow, label)

\* a role loop that stops after the first resolved role
AddRolesFirstOnly(p, roles, targets, ow, label) ==
    IF roles = <<>> THEN p
    ELSE AddTargets(p, Head(roles), targets, ow, label)

\* "for role_id in role_refs: ... for target in targets: plan.add(...)"
RECURSIVE AddRoles(_, _, _, _, _)
AddRoles(p, roles, targets, ow, label) ==
    IF roles = <<>> THEN p
    ELSE AddRoles(AddTargets(p, Head(roles), targets, ow, label),
                  Tail(roles), targets, ow, label)

\* everyone = guild.default_role
everyone == 1

\* a baseline loop without "if not level_name: continue"
BaselineStepNoSkip(p, upd, rec) ==
    LET r == Resolve(rec, guildCats, "categories")
    IN [plan |-> IF r.obj = NoneObj THEN p
                 ELSE PlanAdd(p, r.obj.id,
                              OverwriteEntry(everyone, level_to_overwrite(rec.baseline),
                                             <<"@everyone baseline", rec.baseline>>)),
        updates |-> upd \o r.updates]

\* one iteration of "for cat_rec in airtable.get_categories()"
BaselineStep(p, upd, rec) ==
    IF rec.baseline = "" THEN [plan |-> p, updates |-> upd]
    ELSE LET r == Resolve(rec, guildCats, "categories")
         IN [plan |-> IF r.obj = NoneObj THEN p
                      ELSE PlanAdd(p, r.obj.id,
                                   OverwriteEntry(everyone, level_to_overwrite(rec.baseline),
                                                  <<"@everyone baseline", rec.baseline>>)),
             updates |-> upd \o r.updates]

\* one iteration of "for rule in airtable.get_access_rules()"
RuleStep(p, upd, f) ==
    IF f.roles = <<>> \/ f.level = "" THEN [plan |-> p, updates |-> upd]
    ELSE LET final == FinalOverwrite(level_to_overwrite(f.level), f.overwrite)
             targets == IF f.scope = "Category"
                        THEN ResolveRefs(f.categories, catRecs, guildCats, "categories")
                        ELSE IF f.scope = "Channel"
                        THEN ResolveRefs(f.channels, chanRecs, guildChans, "channels")
                        ELSE [objs |-> <<>>, updates |-> <<>>]
             roles == ResolveRefs(f.roles, roleRecs, guildRoles, "roles")
         IN [plan |-> AddRoles(p, roles.objs, targets.objs, final, <<f.level, f.overwrite>>),
             updates |-> upd \o targets.updates \o roles.updates]

\* build_permission_plan(guild) is called: plan = PermissionPlan()
BuildStart ==
    /\ pc = "idle"
    /\ plan' = <<>>
    /\ airtable_updates' = <<>>
    /\ bi' = 1
    /\ nrules' = 0
    /\ rule' = NoRule
    /\ pc' = IF catRecs = <<>> THEN "rules" ELSE "baseline"
    /\ UNCHANGED <<present, overwrites, lines, recVars, outerVars, resolveVars>>
    /\ UNCHANGED <<ci, phase, k, stale, attempt, sleeps, delay, applied, removed,
                   errors, log, resp, pass, firstLive, before>>

\* step 1 of the builder, the baseline of one category record
Baseline ==
    /\ pc = "baseline"
    /\ LET r == BaselineStep(plan, airtable_updates, catRecs[bi])
       IN /\ plan' = r.plan
          /\ airtable_updates' = r.updates
    /\ bi' = bi + 1
    /\ pc' = IF bi = Len(catRecs) THEN "rules" ELSE "baseline"
    /\ UNCHANGED <<present, overwrites, lines, recVars, outerVars, resolveVars, nrules, rule>>
    /\ UNCHANGED <<ci, phase, k, stale, attempt, sleeps, delay, applied, removed,
                   errors, log, resp, pass, firstLive, before>>

\* the access rules the builder model draws from
RuleChoices ==
    [roles : {<<>>, <<"r1">>, <<"r1", "r2">>, <<"r2", "r0">>},
     scope : {"Category"}, categories : {<<"c1", "c2">>}, channels : {<<>>},
     level : {"Chat"}, overwrite : {"Allow"}]
    \cup
    [roles : {<<"r1">>, <<"r1", "r2">>},
     scope : {"Category"}, categories : {<<"c1">>}, channels : {<<>>},
     level : {"ReadOnly"}, overwrite : {"Deny"}]
    \cup
    [roles : {<<"r1">>, <<"r2">>},
     scope : {"Channel"}, categories : {<<>>}, channels : {<<"h1">>},
     level : {"Chat", "ReadOnly"}, overwrite : {"Allow", "Deny"}]
    \cup
    [roles : {<<"r1">>},
     scope : {"Category", "Server"}, categories : {<<"c1">>}, channels : {<<"h1">>},
     level : {"", "Guest"}, overwrite : {"Allow"}]
    \cup
    [roles : {<<"r1">>},
     scope : {"Channel"}, categories : {<<>>}, channels : {<<"h1">>},
     level : {"Muted"}, overwrite : {"Deny", "deny"}]

MaxRules == 2      \* access rules in the Access Rules table

\* step 2 of the builder, one access rule
Rule(f) ==
    /\ pc = "rules"
    /\ nrules < MaxRules
    /\ LET r == RuleStep(plan, airtable_updates, f)
       IN /\ plan' = r.plan
          /\ airtable_updates' = r.updates
    /\ nrules' = nrules + 1
    /\ rule' = f
    /\ UNCHANGED <<pc, present, overwrites, lines, recVars, outerVars, resolveVars, bi>>
    /\ UNCHANGED <<ci, phase, k, stale, attempt, sleeps, delay, applied, removed,
                   errors, log, resp, pass, firstLive, before>>

\* the access rules are exhausted: "return plan"
BuildReturn ==
    /\ pc = "rules"
    /\ pc' = "built"
    /\ UNCHANGED <<plan, present, overwrites, lines, recVars, outerVars, resolveVars, buildVars>>
    /\ UNCHANGED <<ci, phase, k, stale, attempt, sleeps, delay, applied, removed,
                   errors, log, resp, pass, firstLive, before>>

\* the guild and the Airtable tables the builder model starts from
RoleRecChoices ==
    [id : {"r1"}, name : {"Mods"}, discord_id : {"", "2", "9", "x"}]
    \cup [id : {"r1"}, name : {"Old"}, discord_id : {"2"}]
    \cup [id : {"r1"}, name : {""}, discord_id : {""}]

CatRecChoices ==
    [id : {"c1"}, name : {"Lobby"}, discord_id : {"", "1", "9"},
     baseline : {"", "ReadOnly"}]

InitBuild ==
    /\ guildRoles = << [id |-> 1, name |-> "@everyone"], [id |-> 2, name |-> "Mods"],
                       [id |-> 3, name |-> "Staff"] >>
    /\ guildCats = << [id |-> 1, name |-> "Lobby"] >>
    /\ guildChans = << [id |-> 2, name |-> "general"] >>
    /\ \E r1 \in RoleRecChoices :
       \E r2 \in { [id |-> "r2", name |-> "Staff", discord_id |-> "3"],
                   [id |-> "r2", name |-> "Staff", discord_id |-> ""] } :
           roleRecs = <<r1, r2>>
    /\ \E c1 \in CatRecChoices :
           catRecs = <<c1, [id |-> "c2", name |-> "Gone", discord_id |-> "",
                            baseline |-> "Chat"]>>
    /\ chanRecs \in { << [id |-> "h1", name |-> "general", discord_id |-> d] >> :
                      d \in {"", "2"} }
    /\ present = {1, 2}
    /\ overwrites = [c \in Channels |-> [t \in {} |-> NoOverwrite]]
    /\ before = overwrites
    /\ firstLive = overwrites
    /\ plan = <<>>
    /\ airtable_updates = <<>>
    /\ bi = 0 /\ nrules = 0 /\ rule = NoRule
    /\ pc = "idle" /\ ci = 0 /\ phase = "set" /\ k = 0 /\ stale = <<>>
    /\ attempt = 0 /\ sleeps = 0 /\ delay = 1
    /\ applied = 0 /\ removed = 0 /\ errors = 0
    /\ log = <<>> /\ resp = "none"
    /\ lines = <<>>
    /\ pass = 1
    /\ NoCall
    /\ NoOuter

NextBuild ==
    \/ BuildStart
    \/ Baseline
    \/ \E f \in RuleChoices : Rule(f)
    \/ BuildReturn

SpecBuild == InitBuild /\ [][NextBuild]_vars

----------------------------------------------------------------------------
(* The slash commands of cogs/permissions.py and the Airtable client *)

\* the revisions the tables on Airtable go through while the bot runs
Revs == {"rev1", "rev2"}

\* d[key] = value
Put(d, key, value) ==
    [x \in DOMAIN d \cup {key} |-> IF x = key THEN value ELSE d[x]]

\* mutant: a table that can be had from nowhere is taken as empty
FetchNeverRaises(key, saved) ==
    IF key \in DOMAIN mem
    THEN [mem |-> mem, disk |-> disk, origin |-> "memory", raised |-> FALSE]
    ELSE IF reachable
    THEN [mem |-> Put(mem, key, remote),
          disk |-> IF saved THEN Put(mem, key, remote) ELSE disk,
          origin |-> "airtable", raised |-> FALSE]
    ELSE IF key \in DOMAIN disk
    THEN [mem |-> Put(mem, key, disk[key]), disk |-> disk,
          origin |-> "disk", raised |-> FALSE]
    ELSE [mem |-> mem, disk |-> disk, origin |-> "none", raised |-> FALSE]

\* AirtableClient._fetch(key): the table from _cache if it is there; else from
\* Airtable, stored in _cache and the whole _cache written to disk
\* (_persist_cache, which may fail without raising: saved); else, Airtable
\* failing, from the disk cache if it holds the table; else RuntimeError
Fetch(key, saved) ==
    IF key \in DOMAIN mem
    THEN [mem |-> mem, disk |-> disk, origin |-> "memory", raised |-> FALSE]
    ELSE IF reachable
    THEN [mem |-> Put(mem, key, remote),
          disk |-> IF saved THEN Put(mem, key, remote) ELSE disk,
          origin |-> "airtable", raised |-> FALSE]
    ELSE IF key \in DOMAIN disk
    THEN [mem |-> Put(mem, key, disk[key]), disk |-> disk,
          origin |-> "disk", raised |-> FALSE]
    ELSE [mem |-> mem, disk |-> disk, origin |-> "none", raised |-> TRUE]

\* build_permission_plan fetches roles, categories and channels up front, runs
\* the baseline loop (get_categories is then in _cache), fetches the access
\* rules and runs the rule loop
AfterFetch(key) ==
    CASE key = "roles" -> "categories"
      [] key = "categories" -> "channels"
      [] key = "channels" -> "baseline"
      [] key = "access_rules" -> "rules"

\* mutant: every command applies its plan
AppliesAlways(c) == TRUE

\* apply_permission_plan and flush_updates are called by sync_permissions only
Applies(c) == c = "sync"

\* mutant: flush_updates gives up at the first update that fails
FlushEndsAtFailure(ok, n) == ~ok \/ n = Len(airtable_updates)

\* "for table_key, record_id, fields in updates": the loop of flush_updates
\* ends after the last update, whatever the outcomes were
FlushEnds(ok, n) == n = Len(airtable_updates)

\* the variables of the Applier and the Differ as a command finds them
ApplyIdle ==
    /\ pc' = "idle" /\ ci' = 0 /\ phase' = "set" /\ k' = 0 /\ stale' = <<>>
    /\ attempt' = 0 /\ sleeps' = 0 /\ delay' = 1
    /\ applied' = 0 /\ removed' = 0 /\ errors' = 0
    /\ log' = <<>> /\ resp' = "none"
    /\ lines' = <<>>
    /\ pass' = 1
    /\ before' = overwrites
    /\ firstLive' = overwrites

\* /preview-permissions or /sync-permissions is invoked: get_airtable raises
\* RuntimeError for a guild without configuration; sync_permissions clears
\* _cache (refresh) before it builds the plan, preview_permissions does not
Command(c) ==
    /\ cmd = "none"
    /\ cmd' = c
    /\ IF configured
       THEN /\ cpc' = "roles"
            /\ mem' = IF c = "sync" THEN Empty ELSE mem
       ELSE /\ cpc' = "raised"
            /\ mem' = mem
    /\ UNCHANGED <<storeVars, bundleVars, lateVars>>
    /\ UNCHANGED <<configured, reachable, remote, disk, origin, sent>>
    /\ UNCHANGED <<plan, present, overwrites, lines, applyVars, recVars,
                   buildVars, resolveVars>>

\* one table accessor of build_permission_plan
FetchTable ==
    /\ cpc \in Keys
    /\ \E saved \in BOOLEAN :
          LET f == Fetch(cpc, saved)
          IN /\ mem' = f.mem
             /\ disk' = f.disk
             /\ origin' = [origin EXCEPT ![cpc] = f.origin]
             /\ cpc' = IF f.raised THEN "raised" ELSE AfterFetch(cpc)
    /\ UNCHANGED <<storeVars, bundleVars, lateVars>>
    /\ UNCHANGED <<configured, reachable, remote, cmd, sent>>
    /\ UNCHANGED <<plan, present, overwrites, lines, applyVars, recVars,
                   buildVars, resolveVars>>

\* the baseline loop as the command sees it: it adds entries for @everyone to
\* the plan and queues record corrections (only for a category that gets an
\* entry), and touches nothing else
BaselineLoop ==
    /\ cpc = "baseline"
    /\ \E added, queued \in BOOLEAN :
          /\ queued => added
          /\ plan' = IF added
                     THEN PlanAdd(plan, 2,
                                  OverwriteEntry(1, Overwrite({"view_channel"}, {"send_messages"}),
                                                 <<"baseline">>))
                     ELSE plan
          /\ airtable_updates' =
                IF queued
                THEN Append(airtable_updates, Update("categories", "c1", "discord_id", "1"))
                ELSE airtable_updates
    /\ cpc' = "access_rules"
    /\ UNCHANGED <<storeVars, bundleVars, lateVars>>
    /\ UNCHANGED <<configured, reachable, remote, mem, disk, cmd, origin, sent>>
    /\ UNCHANGED <<present, overwrites, lines, applyVars, recVars, resolveVars,
                   bi, nrules, rule>>

\* the access-rule loop as the command sees it, and the return of the plan; a
\* rule whose role resolves and whose categories do not queues a correction
\* and adds no entry
RuleLoop ==
    /\ cpc = "rules"
    /\ plan' \in {plan,
                 PlanAdd(plan, 1, OverwriteEntry(2, Overwrite({"view_channel", "send_messages"}, {}),
                                                 <<"rule">>))}
    /\ airtable_updates' \in
          {airtable_updates,
           Append(airtable_updates, Update("roles", "r1", "name", "Mod"))}
    /\ cpc' = "built"
    /\ UNCHANGED <<storeVars, bundleVars, lateVars>>
    /\ UNCHANGED <<configured, reachable, remote, mem, disk, cmd, origin, sent>>
    /\ UNCHANGED <<present, overwrites, lines, applyVars, recVars, resolveVars,
                   bi, nrules, rule>>

\* preview_permissions: lines = diff_permission_plan(plan, guild)
PreviewDiff ==
    /\ cmd = "preview"
    /\ cpc = "built"
    /\ pc = "idle"
    /\ Diff

\* preview_permissions sends the lines
PreviewReply ==
    /\ cmd = "preview"
    /\ cpc = "built"
    /\ pc = "previewed"
    /\ cpc' = "replied"
    /\ UNCHANGED <<storeVars, bundleVars, lateVars>>
    /\ UNCHANGED <<configured, reachable, remote, mem, disk, cmd, origin, sent>>
    /\ UNCHANGED <<plan, present, overwrites, lines, applyVars, recVars,
                   buildVars, resolveVars>>

\* sync_permissions: "if total == 0": the command answers and returns
SyncNothing ==
    /\ Applies(cmd)
    /\ cpc = "built"
    /\ pc = "idle"
    /\ SumLen(plan) = 0
    /\ cpc' = "replied"
    /\ UNCHANGED <<storeVars, bundleVars, lateVars>>
    /\ UNCHANGED <<configured, reachable, remote, mem, disk, cmd, origin, sent>>
    /\ UNCHANGED <<plan, present, overwrites, lines, applyVars, recVars,
                   buildVars, resolveVars>>

\* sync_permissions: await apply_permission_plan(plan, guild)
SyncApply ==
    /\ Applies(cmd)
    /\ cpc = "built"
    /\ SumLen(plan) # 0
    /\ Apply

\* sync_permissions after apply_permission_plan has returned:
\* "if plan.airtable_updates:" flush_updates is called
SyncFlush ==
    /\ Applies(cmd)
    /\ cpc = "built"
    /\ pc = "done"
    /\ cpc' = IF airtable_updates = <<>> THEN "replied" ELSE "flush"
    /\ UNCHANGED <<storeVars, bundleVars, lateVars>>
    /\ UNCHANGED <<configured, reachable, remote, mem, disk, cmd, origin, sent>>
    /\ UNCHANGED <<plan, present, overwrites, lines, applyVars, recVars,
                   buildVars, resolveVars>>

\* one iteration of the loop of flush_updates: the update is sent; an
\* exception is printed and the loop goes on
FlushUpdate ==
    /\ cpc = "flush"
    /\ \E ok \in BOOLEAN :
          /\ sent' = Append(sent, [update |-> airtable_updates[Len(sent) + 1], ok |-> ok])
          /\ cpc' = IF FlushEnds(ok, Len(sent) + 1) THEN "replied" ELSE "flush"
    /\ UNCHANGED <<storeVars, bundleVars, lateVars>>
    /\ UNCHANGED <<configured, reachable, remote, mem, disk, cmd, origin>>
    /\ UNCHANGED <<plan, present, overwrites, lines, applyVars, recVars,
                   buildVars, resolveVars>>

\* the command has answered (its result, or the text of the RuntimeError):
\* its plan is dropped; _cache and the disk cache stay
CommandEnds ==
    /\ cpc \in {"replied", "raised"}
    /\ cmd' = "none"
    /\ cpc' = "idle"
    /\ origin' = [key \in Keys |-> "none"]
    /\ sent' = <<>>
    /\ plan' = <<>>
    /\ airtable_updates' = <<>>
    /\ ApplyIdle
    /\ UNCHANGED <<storeVars, bundleVars, lateVars>>
    /\ UNCHANGED <<configured, reachable, remote, mem, disk>>
    /\ UNCHANGED <<present, overwrites, recVars, resolveVars, bi, nrules, rule>>

\* Airtable becomes unreachable, or reachable again (followed where it can
\* be seen: before a command and before a table is fetched)
Network ==
    /\ cmd = "none" \/ cpc \in Keys
    /\ reachable' = ~reachable
    /\ UNCHANGED <<storeVars, bundleVars, lateVars>>
    /\ UNCHANGED <<configured, remote, mem, disk, cmd, cpc, origin, sent>>
    /\ UNCHANGED <<plan, present, overwrites, lines, applyVars, recVars,
                   buildVars, resolveVars>>

\* between two commands the tables are edited on Airtable
EditTables ==
    /\ cmd = "none"
    /\ remote = "rev1"
    /\ remote' = "rev2"
    /\ UNCHANGED <<storeVars, bundleVars, lateVars>>
    /\ UNCHANGED <<configured, reachable, mem, disk, cmd, cpc, origin, sent>>
    /\ UNCHANGED <<plan, present, overwrites, lines, applyVars, recVars,
                   buildVars, resolveVars>>

\* /setup airtable: the configuration is saved and reset_client drops the
\* guild's client, so that the next get_airtable makes one with an empty _cache
Setup ==
    /\ cmd = "none"
    /\ ~configured
    /\ configured' = TRUE
    /\ mem' = Empty
    /\ UNCHANGED <<storeVars, bundleVars, lateVars>>
    /\ UNCHANGED <<reachable, remote, disk, cmd, cpc, origin, sent>>
    /\ UNCHANGED <<plan, present, overwrites, lines, applyVars, recVars,
                   buildVars, resolveVars>>

\* the live overwrites a command can find on a channel
SyncLiveMaps ==
    {Empty} \cup {[t \in {2} |-> o] : o \in ApplyOverwrites}

\* the bot has started: no client, and the disk cache a previous run left
InitSync ==
    /\ plan = <<>>
    /\ present = Channels
    /\ overwrites \in {[c \in Channels |-> IF c = 2 THEN m ELSE Empty] : m \in SyncLiveMaps}
    /\ before = overwrites
    /\ firstLive = overwrites
    /\ pc = "idle" /\ ci = 0 /\ phase = "set" /\ k = 0 /\ stale = <<>>
    /\ attempt = 0 /\ sleeps = 0 /\ delay = 1
    /\ applied = 0 /\ removed = 0 /\ errors = 0
    /\ log = <<>> /\ resp = "none"
    /\ lines = <<>>
    /\ pass = 1
    /\ NoRecords
    /\ NoCall
    /\ NoCommand
    /\ NoStore
    /\ NoBundle
    /\ NoLate
    /\ configured \in BOOLEAN
    /\ reachable \in BOOLEAN
    /\ remote = "rev1"
    /\ mem = Empty
    /\ disk \in {Empty, [key \in Keys |-> "rev1"]}

NextSync ==
    \/ \E c \in {"preview", "sync"} : Command(c)
    \/ FetchTable
    \/ BaselineLoop
    \/ RuleLoop
    \/ PreviewDiff
    \/ PreviewReply
    \/ SyncNothing
    \/ SyncApply
    \/ \E r \in {"ok", "http_error"} : Attempt(r)
    \/ Count
    \/ SyncFlush
    \/ FlushUpdate
    \/ CommandEnds
    \/ Network
    \/ EditTables
    \/ Setup

SpecSync == InitSync /\ [][NextSync]_vars

----------------------------------------------------------------------------
(* The local store of permission levels: services/local_store.py *)

LevelNames == {"A", "B"}
Attrs == {"x", "y"}

\* the value of a level: attr -> True | False, a missing attr is neutral
AttrMaps == UNION {[D -> BOOLEAN] : D \in SUBSET Attrs}

\* config.PERMISSION_LEVELS_DEFAULT, what _load returns for a guild without file
PERMISSION_LEVELS_DEFAULT == [n \in {"A"} |-> [a \in {"x"} |-> TRUE]]

\* a file that holds all of the JSON text of d (json.dump and json.load of a
\* dict of dicts of booleans with string keys give the dict back)
FileOf(d) == [exists |-> TRUE, data |-> d, complete |-> TRUE]

\* a file that holds a part of the JSON text of d
PartOf(d) == [exists |-> TRUE, data |-> d, complete |-> FALSE]

\* _load(path, default): the default if the file does not exist; json.load
\* raises on a text that is cut short
Load(f) ==
    IF ~f.exists THEN [data |-> PERMISSION_LEVELS_DEFAULT, raised |-> FALSE]
    ELSE IF f.complete THEN [data |-> f.data, raised |-> FALSE]
    ELSE [data |-> Empty, raised |-> TRUE]

Without(d, key) == [x \in DOMAIN d \ {key} |-> d[x]]

\* the mutating calls the threads make
Ops ==
    [name : {"set_permission"}, level : LevelNames, attr : Attrs,
     value : {"True", "False", "None"}]
    \cup [name : {"create_level"}, level : {"B"}]
    \cup [name : {"delete_level"}, level : LevelNames]
    \cup [name : {"reset_levels_to_default"}]

\* mutant: set_permission with value None stores False under the attribute
ModifyNoneDenies(o, d) ==
    CASE o.name = "set_permission" ->
           IF o.level \notin DOMAIN d THEN [data |-> d, raised |-> TRUE]
           ELSE [data |-> [d EXCEPT ![o.level] = Put(@, o.attr, o.value = "True")],
                 raised |-> FALSE]
      [] o.name = "create_level" ->
           IF o.level \in DOMAIN d THEN [data |-> d, raised |-> TRUE]
           ELSE [data |-> Put(d, o.level, Empty), raised |-> FALSE]
      [] o.name = "delete_level" ->
           IF o.level \notin DOMAIN d THEN [data |-> d, raised |-> TRUE]
           ELSE [data |-> Without(d, o.level), raised |-> FALSE]
      [] o.name = "reset_levels_to_default" ->
           [data |-> PERMISSION_LEVELS_DEFAULT, raised |-> FALSE]

\* what a call makes of the levels it has loaded: the dict it saves, or the
\* KeyError or ValueError it raises
Modify(o, d) ==
    CASE o.name = "set_permission" ->
           IF o.level \notin DOMAIN d THEN [data |-> d, raised |-> TRUE]
           ELSE [data |-> [d EXCEPT ![o.level] =
                             IF o.value = "None" THEN Without(@, o.attr)
                             ELSE Put(@, o.attr, o.value = "True")],
                 raised |-> FALSE]
      [] o.name = "create_level" ->
           IF o.level \in DOMAIN d THEN [data |-> d, raised |-> TRUE]
           ELSE [data |-> Put(d, o.level, Empty), raised |-> FALSE]
      [] o.name = "delete_level" ->
           IF o.level \notin DOMAIN d THEN [data |-> d, raised |-> TRUE]
           ELSE [data |-> Without(d, o.level), raised |-> FALSE]
      [] o.name = "reset_levels_to_default" ->
           [data |-> PERMISSION_LEVELS_DEFAULT, raised |-> FALSE]

\* mutant: the calls do not wait for the lock
CanEnterAlways(t) == TRUE

\* "with _get_lock(guild_id)": threading.Lock lets one thread in
CanEnter(t) == store_lock = 0

\* mutant: _save writes the JSON text to the target itself
SavePathTarget == "target"

\* _save writes the JSON text to the file mkstemp has made
SavePath == "tmp"

\* the lock is released when the with block is left
Release(t) == store_lock' = IF store_lock = t THEN 0 ELSE store_lock

\* local_store touches nothing but its files and its locks
StoreFrame ==
    UNCHANGED <<plan, present, overwrites, lines, applyVars, recVars,
                buildVars, resolveVars, cmdVars, bundleVars, lateVars>>

\* a thread calls a mutating function for the guild
StoreCall(t) ==
    /\ tpc[t] = "idle"
    /\ tpc' = [tpc EXCEPT ![t] = "acquire"]
    /\ UNCHANGED <<store_file, store_tmp, store_lock, store_op, store_levels,
                   lock_order, store_start, reader_seen>>
    /\ StoreFrame

\* the thread enters the with block
Acquire(t) ==
    /\ tpc[t] = "acquire"
    /\ CanEnter(t)
    /\ store_lock' = t
    /\ lock_order' = Append(lock_order, t)
    /\ tpc' = [tpc EXCEPT ![t] = "load"]
    /\ UNCHANGED <<store_file, store_tmp, store_op, store_levels, store_start,
                   reader_seen>>
    /\ StoreFrame

\* get_permission_levels inside the lock, the check and the change of the dict
\* (reset_levels_to_default loads nothing)
LoadModify(t) ==
    /\ tpc[t] = "load"
    /\ LET l == IF store_op[t].name = "reset_levels_to_default"
                THEN [data |-> Empty, raised |-> FALSE]
                ELSE Load(store_file)
           m == Modify(store_op[t], l.data)
       IN IF l.raised \/ m.raised
          THEN /\ tpc' = [tpc EXCEPT ![t] = "raised"]
               /\ Release(t)
               /\ UNCHANGED store_levels
          ELSE /\ tpc' = [tpc EXCEPT ![t] = "mkstemp"]
               /\ store_levels' = [store_levels EXCEPT ![t] = m.data]
               /\ UNCHANGED store_lock
    /\ UNCHANGED <<store_file, store_tmp, store_op, lock_order, store_start,
                   reader_seen>>
    /\ StoreFrame

\* _save: tempfile.mkstemp and the first bytes json.dump writes
Mkstemp(t) ==
    /\ tpc[t] = "mkstemp"
    /\ IF SavePath = "tmp"
       THEN /\ store_tmp' = [store_tmp EXCEPT ![t] = PartOf(store_levels[t])]
            /\ UNCHANGED store_file
       ELSE /\ store_file' = PartOf(store_levels[t])
            /\ UNCHANGED store_tmp
    /\ tpc' = [tpc EXCEPT ![t] = "dump"]
    /\ UNCHANGED <<store_lock, store_op, store_levels, lock_order, store_start,
                   reader_seen>>
    /\ StoreFrame

\* _save: json.dump and the close of the file end well, or an exception (disk
\* full, for one) makes _save unlink the temporary file and raise
Dump(t) ==
    /\ tpc[t] = "dump"
    /\ \E ok \in BOOLEAN :
          IF ok
          THEN /\ IF SavePath = "tmp"
                  THEN /\ store_tmp' = [store_tmp EXCEPT ![t] = FileOf(store_levels[t])]
                       /\ UNCHANGED store_file
                  ELSE /\ store_file' = FileOf(store_levels[t])
                       /\ UNCHANGED store_tmp
               /\ tpc' = [tpc EXCEPT ![t] = "replace"]
               /\ UNCHANGED store_lock
          ELSE /\ store_tmp' = [store_tmp EXCEPT ![t] = NoFile]
               /\ UNCHANGED store_file
               /\ tpc' = [tpc EXCEPT ![t] = "raised"]
               /\ Release(t)
    /\ UNCHANGED <<store_op, store_levels, lock_order, store_start, reader_seen>>
    /\ StoreFrame

\* _save: os.replace(tmp, path) puts the temporary file in the place of the
\* target in one step, or fails and _save unlinks the temporary file and
\* raises; then the with block is left
Replace(t) ==
    /\ tpc[t] = "replace"
    /\ \E ok \in BOOLEAN :
          IF ok
          THEN /\ store_file' = IF SavePath = "tmp" THEN store_tmp[t] ELSE store_file
               /\ tpc' = [tpc EXCEPT ![t] = "returned"]
          ELSE /\ UNCHANGED store_file
               /\ tpc' = [tpc EXCEPT ![t] = "raised"]
    /\ store_tmp' = [store_tmp EXCEPT ![t] = NoFile]
    /\ Release(t)
    /\ UNCHANGED <<store_op, store_levels, lock_order, store_start, reader_seen>>
    /\ StoreFrame

\* the process dies: its threads stop where they are, the files stay as they
\* are
Crash ==
    /\ \E t \in Threads : tpc[t] \notin {"idle", "returned", "raised", "crashed"}
    /\ tpc' = [t \in Threads |-> "crashed"]
    /\ UNCHANGED <<store_file, store_tmp, store_lock, store_op, store_levels,
                   lock_order, store_start, reader_seen>>
    /\ StoreFrame

\* get_permission_levels called without the lock (level_to_overwrite, or the
\* process started after a crash): what _load returns or raises
Reader ==
    /\ reader_seen' = Load(store_file)
    /\ UNCHANGED <<store_file, store_tmp, store_lock, tpc, store_op, store_levels,
                   lock_order, store_start>>
    /\ StoreFrame

\* the levels files the calls can find
StoreFiles ==
    {NoFile,
     FileOf([n \in {"A"} |-> Empty]),
     FileOf([n \in LevelNames |-> [a \in {"x"} |-> FALSE]])}

\* two threads are about to call a mutating function for the same guild
InitStore ==
    /\ plan = <<>>
    /\ present = Channels
    /\ overwrites = [c \in Channels |-> Empty]
    /\ before = overwrites
    /\ firstLive = overwrites
    /\ pc = "idle" /\ ci = 0 /\ phase = "set" /\ k = 0 /\ stale = <<>>
    /\ attempt = 0 /\ sleeps = 0 /\ delay = 1
    /\ applied = 0 /\ removed = 0 /\ errors = 0
    /\ log = <<>> /\ resp = "none"
    /\ lines = <<>>
    /\ pass = 1
    /\ NoRecords
    /\ NoCall
    /\ NoCommand
    /\ configured = TRUE /\ reachable = TRUE /\ remote = "rev1"
    /\ mem = Empty /\ disk = Empty
    /\ NoBundle
    /\ NoLate
    /\ store_file \in StoreFiles
    /\ store_start = Load(store_file).data
    /\ reader_seen = Load(store_file)
    /\ store_op \in [Threads -> Ops]
    /\ store_tmp = [t \in Threads |-> NoFile]
    /\ store_lock = 0
    /\ tpc = [t \in Threads |-> "idle"]
    /\ store_levels = [t \in Threads |-> Empty]
    /\ lock_order = <<>>

NextStore ==
    \/ \E t \in Threads : StoreCall(t)
    \/ \E t \in Threads : Acquire(t)
    \/ \E t \in Threads : LoadModify(t)
    \/ \E t \in Threads : Mkstemp(t)
    \/ \E t \in Threads : Dump(t)
    \/ \E t \in Threads : Replace(t)
    \/ Crash
    \/ Reader

SpecStore == InitStore /\ [][NextStore]_vars

----------------------------------------------------------------------------
(* Bundle assignment: _apply_bundle of cogs/roles.py *)

\* the roles of the guild, by name; each has a record in the Roles table
RoleNames == {"Red", "Blue", "Gold", "Helper"}

\* the Exclusive Group field of the role's record (ExclusiveGroups.NONE when
\* the role is in no group)
ExclusiveGroup(r) ==
    CASE r \in {"Red", "Blue"} -> "Team"
      [] r = "Gold" -> "Tier"
      [] OTHER -> "None"

\* "for role in bundle_roles": the groups of the roles being added
ExclusiveGroupsOf(roles) == {ExclusiveGroup(r) : r \in roles} \ {"None"}

\* _exclusive_group_roles(guild, group, guild_id)
ExclusiveGroupRoles(group) == {r \in RoleNames : ExclusiveGroup(r) = group}

\* the roles of those groups that the member has and the bundle has not
Conflicting(member, bundle) ==
    {gr \in UNION {ExclusiveGroupRoles(g) : g \in ExclusiveGroupsOf(bundle)} :
        gr \in member /\ gr \notin bundle}

\* roles have nothing to do with plans, commands and the local store
BundleFrame ==
    UNCHANGED <<plan, present, overwrites, lines, applyVars, recVars,
                buildVars, resolveVars, storeVars, lateVars>>

\* /assign calls _apply_bundle(member, bundle_roles, guild)
BundleCall ==
    /\ bpc = "idle"
    /\ bpc' = "try"
    /\ to_remove' = {}
    /\ UNCHANGED <<member_roles, bundle_roles, cmdVars>>
    /\ BundleFrame

\* the try block: get_airtable raises RuntimeError for a guild without
\* configuration; get_role_by_name reads the Roles table through _fetch, which
\* raises RuntimeError when the table can be had from nowhere; "except
\* RuntimeError: pass" leaves to_remove as it is, that is empty, in both cases
BundleResolve ==
    /\ bpc = "try"
    /\ \E saved \in BOOLEAN :
          LET f == Fetch("roles", saved)
          IN IF ~configured
             THEN /\ to_remove' = {}
                  /\ UNCHANGED <<mem, disk>>
             ELSE /\ mem' = f.mem
                  /\ disk' = f.disk
                  /\ to_remove' = IF f.raised THEN {}
                                  ELSE Conflicting(member_roles, bundle_roles)
    /\ bpc' = "resolved"
    /\ UNCHANGED <<member_roles, bundle_roles>>
    /\ UNCHANGED <<configured, reachable, remote, cmd, cpc, origin, sent>>
    /\ BundleFrame

\* "if to_remove: await member.remove_roles(*to_remove)"; the platform may
\* refuse (discord.Forbidden) and the exception leaves _apply_bundle
BundleRemove ==
    /\ bpc = "resolved"
    /\ to_remove # {}
    /\ \E ok \in BOOLEAN :
          IF ok
          THEN /\ member_roles' = member_roles \ to_remove
               /\ bpc' = "removed"
          ELSE /\ UNCHANGED member_roles
               /\ bpc' = "failed"
    /\ UNCHANGED <<bundle_roles, to_remove, cmdVars>>
    /\ BundleFrame

\* "await member.add_roles(*bundle_roles)" and the return of (added, removed)
BundleAdd ==
    /\ \/ bpc = "removed"
       \/ bpc = "resolved" /\ to_remove = {}
    /\ \E ok \in BOOLEAN :
          IF ok
          THEN /\ member_roles' = member_roles \cup bundle_roles
               /\ bpc' = "returned"
          ELSE /\ UNCHANGED member_roles
               /\ bpc' = "failed"
    /\ UNCHANGED <<bundle_roles, to_remove, cmdVars>>
    /\ BundleFrame

\* Airtable becomes unreachable, or reachable again, before the table is read
BundleNetwork ==
    /\ bpc \in {"idle", "try"}
    /\ reachable' = ~reachable
    /\ UNCHANGED <<configured, remote, mem, disk, cmd, cpc, origin, sent>>
    /\ UNCHANGED bundleVars
    /\ BundleFrame

\* a member with some roles is assigned a bundle of roles of the guild; the
\* client may hold the Roles table from an earlier command, and the disk cache
\* may hold it from an earlier fetch
InitBundle ==
    /\ plan = <<>>
    /\ present = Channels
    /\ overwrites = [c \in Channels |-> Empty]
    /\ before = overwrites
    /\ firstLive = overwrites
    /\ pc = "idle" /\ ci = 0 /\ phase = "set" /\ k = 0 /\ stale = <<>>
    /\ attempt = 0 /\ sleeps = 0 /\ delay = 1
    /\ applied = 0 /\ removed = 0 /\ errors = 0
    /\ log = <<>> /\ resp = "none"
    /\ lines = <<>>
    /\ pass = 1
    /\ NoRecords
    /\ NoCall
    /\ NoCommand
    /\ NoStore
    /\ NoLate
    /\ configured \in BOOLEAN
    /\ reachable \in BOOLEAN
    /\ remote = "rev1"
    /\ mem \in {Empty, [key \in {"roles"} |-> "rev1"]}
    /\ ~configured => mem = Empty
    /\ disk \in {Empty, [key \in Keys |-> "rev1"]}
    /\ member_roles \in SUBSET RoleNames
    /\ bundle_roles \in SUBSET RoleNames \ {{}}
    /\ to_remove = {}
    /\ bpc = "idle"

NextBundle ==
    \/ BundleCall
    \/ BundleResolve
    \/ BundleRemove
    \/ BundleAdd
    \/ BundleNetwork

SpecBundle == InitBundle /\ [][NextBundle]_vars

----------------------------------------------------------------------------
(* Helpers of the properties *)

\* the last-appended entry of an entry list for target t
LastEntry(es, t) ==
    es[CHOOSE i \in DOMAIN es :
          /\ es[i].target = t
          /\ \A j \in DOMAIN es : es[j].target = t => j <= i]

\* plan indexes whose channel is live
LiveIdx == {i \in DOMAIN plan : plan[i].id \in present}

\* the targets with a live overwrite in owm[c] that the plan entry i does not name
StaleSet(owm, i) == DOMAIN owm[plan[i].id] \ {plan[i].entries[j].target : j \in DOMAIN plan[i].entries}

HasDuplicateTarget ==
    \E i \in DOMAIN plan : \E a, b \in DOMAIN plan[i].entries :
        /\ a < b
        /\ plan[i].entries[a].target = plan[i].entries[b].target
        /\ plan[i].entries[a].overwrite # plan[i].entries[b].overwrite

LogCount(kind, ok) ==
    Cardinality({i \in DOMAIN log : log[i].kind = kind /\ log[i].ok = ok})

----------------------------------------------------------------------------
(* Properties of the Applier and the Differ *)

\* C1  Convergence: when an apply has returned with errors = 0, every plan
\* channel that is live holds overwrites for exactly the planned targets, and
\* each target's live overwrite is the last-appended entry for that target.
C1_Convergence ==
    (pc = "done" /\ errors = 0) =>
        \A i \in LiveIdx :
            LET c == plan[i].id
                es == plan[i].entries
            IN /\ DOMAIN overwrites[c] = {es[j].target : j \in DOMAIN es}
               /\ \A t \in DOMAIN overwrites[c] :
                     overwrites[c][t] = LastEntry(es, t).overwrite

\* an error-free apply that removed a stale overwrite and wrote two different
\* entries for one target
C1_Witness ==
    /\ pc = "done" /\ errors = 0 /\ pass = 1
    /\ removed >= 1 /\ applied >= 2
    /\ HasDuplicateTarget

\* C2  Idempotence: after a second error-free apply of the same plan, right
\* after an error-free first one, the live overwrites are those the first
\* apply left and the second apply has removed nothing.
C2_Idempotence ==
    (pc = "done" /\ pass = 2 /\ errors = 0) =>
        /\ overwrites = firstLive
        /\ removed = 0

\* a second error-free apply that rewrote two different entries of one target
C2_Witness ==
    /\ pc = "done" /\ pass = 2 /\ errors = 0
    /\ applied >= 2
    /\ HasDuplicateTarget

\* C3  Stale removal: when an apply has returned, every overwrite that was
\* live on a live plan channel for a target the plan does not name there has
\* had one remove write; removed counts exactly the remove writes that
\* succeeded; and in the Differ output such a target has exactly one line, a
\* stale-removal line, and no changed or unchanged line.
C3_StaleRemoval ==
    /\ removed = LogCount("remove", TRUE)
    /\ pc = "done" =>
          \A i \in LiveIdx : \A t \in StaleSet(before, i) :
              Cardinality({n \in DOMAIN log :
                  /\ log[n].ch = plan[i].id
                  /\ log[n].kind = "remove"
                  /\ log[n].target = t}) = 1
    /\ pc = "previewed" =>
          \A i \in LiveIdx : \A t \in StaleSet(overwrites, i) :
              /\ Cardinality({n \in DOMAIN lines :
                    /\ lines[n].ch = plan[i].id
                    /\ lines[n].target = t
                    /\ lines[n].marker = "stale"}) = 1
              /\ \A n \in DOMAIN lines :
                    (lines[n].ch = plan[i].id /\ lines[n].target = t)
                        => lines[n].marker = "stale"

\* a preview after an apply that removed one stale overwrite and failed to
\* remove another: the Differ still lists the one that is left
C3_Witness ==
    /\ pc = "previewed"
    /\ removed = 1
    /\ errors >= 1
    /\ \E n \in DOMAIN lines : lines[n].marker = "stale"

\* C4  Failure isolation: when an apply has returned, every stale removal and
\* every planned entry of every live plan channel has been attempted, whichever
\* writes failed.
C4_FailureIsolation ==
    pc = "done" =>
        \A i \in LiveIdx :
            /\ \A t \in StaleSet(before, i) :
                  \E n \in DOMAIN log :
                      log[n].ch = plan[i].id /\ log[n].kind = "remove"
                          /\ log[n].target = t
            /\ \A j \in DOMAIN plan[i].entries :
                  \E n \in DOMAIN log :
                      log[n].ch = plan[i].id /\ log[n].kind = "set" /\ log[n].idx = j

\* an apply whose first write failed and that went on to write to another channel
C4_Witness ==
    /\ pc = "done"
    /\ Len(log) >= 2
    /\ ~log[1].ok
    /\ \E n \in DOMAIN log : log[n].ch # log[1].ch

\* C5  Retry ceiling: a write is attempted at most max_retries = 3 times; a
\* write whose last answer is a rate-limit signal has been attempted exactly 3
\* times, and it is counted as one error and as neither applied nor removed.
C5_RetryCeiling ==
    /\ [](attempt <= 3)
    /\ []((pc = "returned" /\ resp = "rate_limited") => attempt = 3)
    /\ [][(pc = "returned" /\ resp = "rate_limited") =>
            /\ errors' = errors + 1
            /\ applied' = applied
            /\ removed' = removed]_vars

\* a write abandoned after three rate-limit signals
C5_Witness ==
    pc = "returned" /\ resp = "rate_limited" /\ attempt = 3

\* C6  Rate-limit scenario: a planned write that succeeds on its third attempt
\* (the first two were rate-limited) has made exactly two backoff sleeps, adds
\* exactly 1 to applied and nothing to errors.
C6_RateLimitScenario ==
    /\ []((pc = "returned" /\ resp = "ok" /\ attempt = 3) => sleeps = 2)
    /\ [][(pc = "returned" /\ resp = "ok" /\ attempt = 3 /\ phase = "set") =>
            /\ applied' = applied + 1
            /\ errors' = errors]_vars

\* a planned write that has just succeeded on its third attempt
C6_Witness ==
    pc = "returned" /\ resp = "ok" /\ attempt = 3 /\ phase = "set"

\* C7  Permanent platform error: an attempt answered with an error that is no
\* rate-limit signal ends the write at once, without a backoff sleep; the
\* write is counted as one error, and the Applier moves to another write.
C7_PermanentError ==
    /\ [][(pc = "write" /\ resp' = "http_error") =>
            /\ pc' = "returned"
            /\ sleeps' = sleeps]_vars
    /\ [][(pc = "returned" /\ resp = "http_error") =>
            /\ errors' = errors + 1
            /\ applied' = applied
            /\ removed' = removed
            /\ (pc' = "done" \/ <<ci', phase', k'>> # <<ci, phase, k>>)]_vars

\* a write abandoned on a platform error at its first attempt
C7_Witness ==
    pc = "returned" /\ resp = "http_error" /\ attempt = 1 /\ sleeps = 0

\* C8  Absent channel: no write is issued to a plan channel that is not live,
\* and the three counters add up to the writes of the live plan channels only.
C8_AbsentChannelSkipped ==
    /\ \A n \in DOMAIN log : log[n].ch \in present
    /\ pc \in {"write", "returned"} => plan[ci].id \in present
    /\ applied + removed + errors = Len(log)
    /\ pc = "done" =>
          applied + removed + errors =
              SumLen(SelectSeq(plan, LAMBDA e : e.id \in present))
              + Cardinality(UNION {{<<i, t>> : t \in StaleSet(before, i)} : i \in LiveIdx})

\* an apply that skipped the first channel of the plan and wrote to the second
C8_Witness ==
    /\ pc = "done"
    /\ Len(plan) = 2
    /\ plan[1].id \notin present
    /\ plan[2].id \in present
    /\ applied = 1 /\ errors = 0

\* C9  Plan uniqueness (as the claim states it): in every plan the builder
\* produces, the entry list of a channel/category holds at most one
\* OverwriteEntry per target.
C9_PlanUniqueness ==
    \A i \in DOMAIN plan : \A a, b \in DOMAIN plan[i].entries :
        plan[i].entries[a].target = plan[i].entries[b].target => a = b

\* C10  Tie-break (as the claim states it): with several entries for one
\* target, the Applier leaves the last-appended entry live, and every Differ
\* line of that target carries the verdict of the last-appended entry alone.
C10_TieBreak ==
    /\ (pc = "done" /\ errors = 0) =>
          \A i \in LiveIdx : \A j \in DOMAIN plan[i].entries :
              LET t == plan[i].entries[j].target
              IN /\ t \in DOMAIN overwrites[plan[i].id]
                 /\ overwrites[plan[i].id][t] = LastEntry(plan[i].entries, t).overwrite
    /\ pc = "previewed" =>
          \A i \in LiveIdx : \A n \in DOMAIN lines :
              (lines[n].ch = plan[i].id /\ lines[n].marker \in {"changed", "unchanged"}) =>
                  LET t == lines[n].target
                      cur == overwrites[plan[i].id]
                  IN lines[n].marker =
                        IF t \in DOMAIN cur /\ cur[t] = LastEntry(plan[i].entries, t).overwrite
                        THEN "unchanged" ELSE "changed"

----------------------------------------------------------------------------
(* Properties of the identity resolver *)

\* C11  Resolution priority: a call on a record whose identifier is valid and
\* is the identifier of a live role returns that role whatever the stored
\* name; it queues exactly one update, correcting the stored name of that
\* record, when the stored name differs from the live name, and nothing when
\* they are equal; it queues no identifier backfill and no update of another
\* record.
C11_ResolutionPriority ==
    (/\ pc = "resolved"
     /\ ValidId(at_record)
     /\ LiveWithId(IntOf(at_record.discord_id)) # {}) =>
        /\ resolved \in LiveWithId(IntOf(at_record.discord_id))
        /\ Queued = IF resolved.name # at_record.name
                    THEN << [table |-> "roles", rec |-> at_record.id,
                             field |-> "name", value |-> resolved.name] >>
                    ELSE <<>>
        /\ \A n \in DOMAIN Queued :
              Queued[n].field # "discord_id" /\ Queued[n].rec = at_record.id

\* a call on a record with the identifier of the live role "Mods" and the
\* stored name "Old", made when one update was queued already
C11_Witness ==
    /\ pc = "resolved"
    /\ at_record.discord_id = "2" /\ at_record.name = "Old"
    /\ resolved = [id |-> 2, name |-> "Mods"]
    /\ queued_before = 1
    /\ Len(airtable_updates) = 2
    /\ airtable_updates[2].field = "name" /\ airtable_updates[2].value = "Mods"

\* C12  Name-fallback backfill: a call on a record with no identifier whose
\* stored name is the name of a live role returns a live role of that name
\* (the last one of guild.roles when the name is duplicated) and queues
\* exactly one update, which writes that role's identifier onto the record.
C12_NameFallbackBackfill ==
    (/\ pc = "resolved"
     /\ at_record.discord_id = ""
     /\ LiveWithName(at_record.name) # {}) =>
        /\ resolved \in LiveWithName(at_record.name)
        /\ \A o \in LiveWithName(at_record.name) : o.id <= resolved.id
        /\ Queued = << [table |-> "roles", rec |-> at_record.id,
                        field |-> "discord_id",
                        value |-> IF resolved.id = 2 THEN "2" ELSE "3"] >>

\* a call on a record named "Mods" without identifier, in a guild with two
\* roles of that name: the later one is returned and backfilled
C12_Witness ==
    /\ pc = "resolved"
    /\ at_record.discord_id = "" /\ at_record.name = "Mods"
    /\ resolved = [id |-> 3, name |-> "Mods"]
    /\ Len(Queued) = 1
    /\ Queued[1].field = "discord_id" /\ Queued[1].value = "3"

\* the record carries a valid identifier that no object of objs bears
DeletedUpstream(rec, objs) ==
    ValidId(rec) /\ \A i \in DOMAIN objs : objs[i].id # IntOf(rec.discord_id)

\* C13  Deleted upstream: throughout a build, a role or category record whose
\* identifier is valid but borne by no live object has no update queued, and
\* the plan holds no entry for a live role bearing the record's stored name
\* and no channel list for a live category bearing it: the record resolves to
\* nothing, although the name fallback would have found an object.
C13_DeletedUpstream ==
    /\ \A i \in DOMAIN roleRecs :
          DeletedUpstream(roleRecs[i], guildRoles) =>
              /\ \A n \in DOMAIN airtable_updates :
                    ~(airtable_updates[n].table = "roles"
                        /\ airtable_updates[n].rec = roleRecs[i].id)
              /\ \A p \in DOMAIN plan : \A e \in DOMAIN plan[p].entries :
                 \A j \in DOMAIN guildRoles :
                    guildRoles[j].name = roleRecs[i].name
                        => plan[p].entries[e].target # guildRoles[j].id
    /\ \A i \in DOMAIN catRecs :
          DeletedUpstream(catRecs[i], guildCats) =>
              /\ \A n \in DOMAIN airtable_updates :
                    ~(airtable_updates[n].table = "categories"
                        /\ airtable_updates[n].rec = catRecs[i].id)
              /\ \A p \in DOMAIN plan : \A j \in DOMAIN guildCats :
                    guildCats[j].name = catRecs[i].name => plan[p].id # guildCats[j].id

\* a finished build whose last rule named the role record "Mods" with the
\* identifier of a deleted role, next to a role record that resolved
C13_Witness ==
    /\ pc = "built"
    /\ roleRecs[1].name = "Mods" /\ roleRecs[1].discord_id = "9"
    /\ rule.roles = <<"r1", "r2">>
    /\ rule.level = "Chat"
    /\ plan # <<>>
    /\ \E j \in DOMAIN guildRoles : guildRoles[j].name = "Mods"

\* C14  Name lookup trigger (as the claim states it): a call on a record with
\* a name, and with no identifier, an identifier that is not valid or an
\* identifier that no live role bears, returns the live role of that name, if
\* there is one, with one identifier backfill queued.
C14_NameLookupTrigger ==
    (/\ pc = "resolved"
     /\ at_record.name # ""
     /\ \/ at_record.discord_id = ""
        \/ ~ValidId(at_record)
        \/ LiveWithId(IntOf(at_record.discord_id)) = {}
     /\ LiveWithName(at_record.name) # {}) =>
        /\ resolved \in LiveWithName(at_record.name)
        /\ Len(Queued) = 1
        /\ Queued[1].field = "discord_id"

\* C14 (amended)  The name is looked up exactly when the record has a name and
\* has no identifier or one that is not valid (it does not parse, or it is
\* 0): then a live role of that name is returned with one identifier backfill
\* queued, and nothing is returned or queued when no live role has the name.
\* A valid identifier that no live role bears ends the call with nothing
\* returned and nothing queued, whatever the name.
C14_NameLookupOnlyWithoutValidId ==
    pc = "resolved" =>
        /\ (~ValidId(at_record) /\ LiveWithName(at_record.name) # {}) =>
              /\ resolved \in LiveWithName(at_record.name)
              /\ Len(Queued) = 1
              /\ Queued[1] = [table |-> "roles", rec |-> at_record.id,
                              field |-> "discord_id",
                              value |-> IF resolved.id = 2 THEN "2" ELSE "3"]
        /\ (~ValidId(at_record) /\ LiveWithName(at_record.name) = {}) =>
              resolved = NoneObj /\ Queued = <<>>
        /\ (ValidId(at_record) /\ LiveWithId(IntOf(at_record.discord_id)) = {}) =>
              resolved = NoneObj /\ Queued = <<>>

\* a call on a record named "Mods" whose identifier "x" does not parse: the
\* live role "Mods" is returned and its identifier is backfilled
C14_Witness ==
    /\ pc = "resolved"
    /\ at_record.discord_id = "x" /\ at_record.name = "Mods"
    /\ resolved.name = "Mods"
    /\ Len(Queued) = 1
    /\ Queued[1].field = "discord_id"

----------------------------------------------------------------------------
(* Properties of the plan builder *)

\* the entries an access rule added: their source names role, level and direction
RuleEntries ==
    {e \in UNION {{plan[p].entries[n] : n \in DOMAIN plan[p].entries} : p \in DOMAIN plan} :
        Len(e.source) = 3}

\* C15  Deny inversion: in every entry an access rule added, when the rule's
\* direction is "Deny" each flag the level sets to True is denied and not
\* allowed, each flag it sets to False is allowed and not denied, and each
\* flag it omits is neither; with any other direction each True flag is
\* allowed, each False flag is denied and each omitted flag is neither.
C15_DenyInversion ==
    \A e \in RuleEntries :
        LET perms == PermissionLevels(e.source[2])
            flip == e.source[3] = "Deny"
            ons == {f \in DOMAIN perms : perms[f]}
            offs == {f \in DOMAIN perms : ~perms[f]}
        IN /\ e.overwrite.allow = IF flip THEN offs ELSE ons
           /\ e.overwrite.deny = IF flip THEN ons ELSE offs
           /\ \A f \in Flags \ DOMAIN perms :
                 f \notin e.overwrite.allow /\ f \notin e.overwrite.deny

\* a plan with an entry of a "Deny" rule of level ReadOnly (view_channel
\* denied, send_messages allowed), one of a "Deny" rule of level Muted, which
\* omits view_channel, and one of a rule whose direction is not "Deny"
C15_Witness ==
    /\ \E e \in RuleEntries :
          /\ e.source[2] = "ReadOnly" /\ e.source[3] = "Deny"
          /\ e.overwrite = [allow |-> {"send_messages"}, deny |-> {"view_channel"}]
    /\ \E e \in RuleEntries :
          \/ /\ e.source[2] = "Muted" /\ e.source[3] = "Deny"
             /\ e.overwrite = [allow |-> {"send_messages"}, deny |-> {}]
          \/ /\ e.source[2] = "Muted" /\ e.source[3] = "deny"
             /\ e.overwrite = [allow |-> {}, deny |-> {"send_messages"}]

\* the baseline entries of the plan's list p: their source names the level only
BaselineEntries(p) ==
    {n \in DOMAIN plan[p].entries : Len(plan[p].entries[n].source) = 2}

\* the category records that carry a baseline level and resolve to a live category
BaselineRecs ==
    {i \in DOMAIN catRecs :
        /\ catRecs[i].baseline # ""
        /\ Resolve(catRecs[i], guildCats, "categories").obj # NoneObj}

ResolvedIds(refs, recs, objs, table) ==
    [i \in DOMAIN refs |->
        IF \E j \in DOMAIN recs : recs[j].id = refs[i]
        THEN Resolve(RecById(recs, refs[i]), objs, table).obj.id
        ELSE 0]

\* the same for the scope targets of the rule f
TargetIds(f) ==
    IF f.scope = "Category"
    THEN ResolvedIds(f.categories, catRecs, guildCats, "categories")
    ELSE IF f.scope = "Channel"
    THEN ResolvedIds(f.channels, chanRecs, guildChans, "channels")
    ELSE <<>>

\* the entry list of channel c in the plan p
EntriesOn(p, c) ==
    IF \E i \in DOMAIN p : p[i].id = c
    THEN p[CHOOSE i \in DOMAIN p : p[i].id = c].entries
    ELSE <<>>

\* the ids a live role, category or channel of the model can bear
ObjIds == {1, 2, 3}

\* C17  Access-rule step: the step of the builder that processes one access
\* rule keeps every entry the plan holds; when the rule has a role reference
\* and a level name, it appends to the list of each channel c, for each role
\* r, as many entries as there are pairs of a role reference that resolves to
\* r and a scope target that resolves to c, and nothing else, so that the
\* step adds |resolved roles| x |resolved targets| entries; when the rule has
\* no role reference or no level name the plan is unchanged.
C17_AccessRuleStep ==
    [][(pc = "rules" /\ pc' = "rules") =>
        IF rule'.roles = <<>> \/ rule'.level = ""
        THEN plan' = plan
        ELSE \A rids \in {ResolvedIds(rule'.roles, roleRecs, guildRoles, "roles")} :
             \A tids \in {TargetIds(rule')} :
                /\ \A c \in ObjIds :
                   \A old \in {EntriesOn(plan, c)} : \A new \in {EntriesOn(plan', c)} :
                      /\ SubSeq(new, 1, Len(old)) = old
                      /\ \A r \in ObjIds :
                            Cardinality({n \in (Len(old) + 1) .. Len(new) : new[n].target = r})
                              = Cardinality({i \in DOMAIN rids : rids[i] = r})
                                  * Cardinality({i \in DOMAIN tids : tids[i] = c})
                      /\ \A n \in (Len(old) + 1) .. Len(new) : new[n].target \in ObjIds
                /\ \A i \in DOMAIN plan' : plan'[i].id \in ObjIds
                /\ SumLen(plan') = SumLen(plan)
                      + Cardinality({i \in DOMAIN rids : rids[i] # 0})
                          * Cardinality({i \in DOMAIN tids : tids[i] # 0})]_vars

\* the first rule named two role records, which both resolve, and two
\* category records, of which one resolves: it added two entries to the list
\* of that category
C17_Witness ==
    /\ pc = "rules" /\ nrules = 1
    /\ rule.roles = <<"r1", "r2">>
    /\ rule.categories = <<"c1", "c2">>
    /\ Len(plan) = 1
    /\ Cardinality({n \in DOMAIN plan[1].entries : Len(plan[1].entries[n].source) = 3}) = 2
    /\ \E n \in DOMAIN plan[1].entries : plan[1].entries[n].target = 2
    /\ \E n \in DOMAIN plan[1].entries : plan[1].entries[n].target = 3

----------------------------------------------------------------------------
(* Properties of the Differ *)

\* the Differ lines of the channel c
LinesOf(c) == {n \in DOMAIN lines : lines[n].ch = c}

\* the position of the channel c in the plan
PlanPos(c) == CHOOSE i \in DOMAIN plan : plan[i].id = c

\* C18  Differ classification: in the Differ output every planned entry of a
\* live plan channel has exactly one line, marked unchanged when the target
\* has a live overwrite on the channel that equals the planned overwrite and
\* changed when the live overwrite differs or is absent, and there is no
\* other changed or unchanged line; a plan of one entry diffed against an
\* empty live overwrite map gives exactly one line, marked changed.
C18_DifferClassification ==
    pc = "previewed" =>
        /\ \A i \in LiveIdx : \A j \in DOMAIN plan[i].entries :
              LET c == plan[i].id
                  e == plan[i].entries[j]
                  same == /\ e.target \in DOMAIN overwrites[c]
                          /\ overwrites[c][e.target] = e.overwrite
              IN /\ Cardinality({n \in LinesOf(c) : lines[n].idx = j}) = 1
                 /\ \A n \in LinesOf(c) :
                       lines[n].idx = j =>
                           /\ lines[n].target = e.target
                           /\ lines[n].marker = IF same THEN "unchanged" ELSE "changed"
        /\ \A n \in DOMAIN lines :
              lines[n].marker \in {"changed", "unchanged"} =>
                  \E i \in LiveIdx : /\ plan[i].id = lines[n].ch
                                      /\ lines[n].idx \in DOMAIN plan[i].entries
        /\ (/\ Len(plan) = 1
            /\ Len(plan[1].entries) = 1
            /\ plan[1].id \in present
            /\ DOMAIN overwrites[plan[1].id] = {}) =>
                Len(lines) = 1 /\ lines[1].marker = "changed"

\* a preview of two planned entries of one live channel whose targets both
\* have a live overwrite: one equals the planned overwrite, the other differs
C18_Witness ==
    /\ pc = "previewed"
    /\ Len(plan) = 1 /\ plan[1].id \in present
    /\ Len(lines) = 2
    /\ lines[1].marker = "unchanged" /\ lines[2].marker = "changed"
    /\ lines[1].target # lines[2].target
    /\ lines[2].target \in DOMAIN overwrites[plan[1].id]

\* C19  Differ ordering: in the Differ output every stale-removal line of a
\* channel comes before every changed or unchanged line of that channel, and
\* the lines follow the plan's insertion order of their channels, so that the
\* lines of one channel are contiguous.
C19_DifferOrdering ==
    pc = "previewed" =>
        /\ \A n \in DOMAIN lines : \E i \in DOMAIN plan : plan[i].id = lines[n].ch
        /\ \A m, n \in DOMAIN lines :
              /\ (/\ lines[m].ch = lines[n].ch
                  /\ lines[m].marker = "stale"
                  /\ lines[n].marker \in {"changed", "unchanged"}) => m < n
              /\ m < n => PlanPos(lines[m].ch) <= PlanPos(lines[n].ch)

\* a preview of a plan of two live channels, inserted in the order 2, 1, each
\* with a stale overwrite and a planned entry
C19_Witness ==
    /\ pc = "previewed"
    /\ Len(plan) = 2 /\ plan[1].id = 2 /\ plan[2].id = 1
    /\ Len(lines) = 4
    /\ lines[1].marker = "stale" /\ lines[1].ch = 2
    /\ lines[2].marker \in {"changed", "unchanged"} /\ lines[2].ch = 2
    /\ lines[3].marker = "stale" /\ lines[3].ch = 1
    /\ lines[4].marker \in {"changed", "unchanged"} /\ lines[4].ch = 1

\* C20  Absent channel in the Differ: a plan channel that is not live has
\* exactly one line in the Differ output, the not-found warning, however many
\* entries the plan holds for it; a live plan channel has no such line.
C20_DifferAbsentChannel ==
    pc = "previewed" =>
        \A i \in DOMAIN plan :
            IF plan[i].id \in present
            THEN \A n \in LinesOf(plan[i].id) : lines[n].marker # "notfound"
            ELSE /\ Cardinality(LinesOf(plan[i].id)) = 1
                 /\ \A n \in LinesOf(plan[i].id) : lines[n].marker = "notfound"

\* a preview of a plan that holds two entries for a channel that is not live
C20_Witness ==
    /\ pc = "previewed"
    /\ \E i \in DOMAIN plan :
          /\ plan[i].id \notin present
          /\ Len(plan[i].entries) = 2
          /\ \E n \in DOMAIN lines :
                lines[n].ch = plan[i].id /\ lines[n].marker = "notfound"

----------------------------------------------------------------------------
(* Properties of the order of the writes of an apply *)

\* write a is started before write b in an apply that follows the plan:
\* channels in plan insertion order, within a channel the stale removals
\* before the sets, and each kind in the order of its loop
Started(a, b) ==
    IF a.ch = b.ch
    THEN /\ a.kind = "set" => b.kind = "set"
         /\ a.kind = b.kind => a.idx < b.idx
    ELSE PlanPos(a.ch) < PlanPos(b.ch)

\* C24  Sequential apply: one write is pending at a time, and it is started
\* only when every earlier write has returned; attempts are made for the
\* pending write only; the writes are started channel by channel in plan
\* insertion order, and within a channel every stale removal is started
\* before every set and the sets are started in the order of the entries.
C24_SequentialApply ==
    /\ attempt > 0 => pc \in {"write", "returned"}
    /\ \A n \in DOMAIN log : \A m \in 1..(n - 1) : Started(log[m], log[n])
    /\ pc \in {"write", "returned"} =>
          \A w \in {CurrentWrite} :
              \A m \in DOMAIN log : Started(log[m], w)

\* an apply that removed a stale overwrite of the first plan channel, wrote
\* its entry, and is about to write to the second plan channel
C24_Witness ==
    /\ pc = "write" /\ attempt = 0
    /\ Len(log) = 2
    /\ log[1].kind = "remove" /\ log[2].kind = "set"
    /\ log[1].ch = plan[1].id /\ log[2].ch = plan[1].id
    /\ ci = 2

\* the overwrites the plan asks for on channel c, as target/overwrite pairs,
\* and those that are live on it
TargetSet(i) ==
    {<<t, LastEntry(plan[i].entries, t).overwrite>> : t \in PlannedTargets(plan[i].entries)}
LiveSet(c) == {<<t, overwrites[c][t]>> : t \in DOMAIN overwrites[c]}

\* C26  Intermediate-state shape (as the claim states it): whenever a write
\* of an apply is pending or has just returned, the live overwrite set of
\* each live plan channel is a superset or a subset of the target set the
\* plan defines for that channel (read in the claim's favour: the sets of
\* targets are compared, not the overwrites they carry).
C26_SupersetOrSubset ==
    pc \in {"write", "returned"} =>
        \A i \in LiveIdx :
            \/ DOMAIN overwrites[plan[i].id] \subseteq PlannedTargets(plan[i].entries)
            \/ PlannedTargets(plan[i].entries) \subseteq DOMAIN overwrites[plan[i].id]

\* C26 (amended)  Whenever a write of an apply is pending or has returned,
\* every live overwrite of a live plan channel is the one that was live when
\* the apply began or one the plan holds for that target, no overwrite of a
\* planned target has been removed, and a channel outside the plan is as it
\* was when the apply began.
C26_BetweenInitialAndTarget ==
    pc \in {"write", "returned", "done"} =>
        /\ \A i \in LiveIdx :
              LET c == plan[i].id
                  es == plan[i].entries
              IN /\ \A t \in DOMAIN overwrites[c] :
                       \/ t \in DOMAIN before[c] /\ overwrites[c][t] = before[c][t]
                       \/ \E j \in DOMAIN es :
                             es[j].target = t /\ es[j].overwrite = overwrites[c][t]
                 /\ \A t \in PlannedTargets(es) \cap DOMAIN before[c] :
                       t \in DOMAIN overwrites[c]
        /\ \A c \in Channels :
              (\A i \in LiveIdx : plan[i].id # c) => overwrites[c] = before[c]

\* an apply about to write its second entry: one planned overwrite has been
\* written, another target still has the overwrite it had at the start, and
\* the live set is neither a superset nor a subset of the target set
C26_Witness ==
    /\ pc = "write" /\ phase = "set" /\ k = 2
    /\ LET c == plan[ci].id
       IN /\ ~(LiveSet(c) \subseteq TargetSet(ci))
          /\ ~(TargetSet(ci) \subseteq LiveSet(c))
          /\ plan[ci].entries[2].target \in DOMAIN before[c]

\* C25  Re-convergence after interruption: a pass that returns without a
\* failed write leaves every live plan channel with exactly the planned
\* overwrites (the last entry of each target), whether it is an uninterrupted
\* first pass or the pass that follows an apply cut off after any number of
\* writes, with or without a request in flight: both end in the same live
\* state. No channel outside the plan is changed by the cut-off apply or by
\* the pass that follows, and the cut-off apply has only removed overwrites
\* of targets the plan does not name and written planned overwrites.
C25_ReConvergence ==
    /\ (pc = "done" /\ errors = 0) =>
          \A i \in LiveIdx :
              LET c == plan[i].id
                  es == plan[i].entries
              IN /\ DOMAIN overwrites[c] = PlannedTargets(es)
                 /\ \A t \in DOMAIN overwrites[c] :
                       overwrites[c][t] = LastEntry(es, t).overwrite
    /\ \A c \in Channels :
          (\A i \in LiveIdx : plan[i].id # c) => overwrites[c] = firstLive[c]
    /\ pc = "cancelled" =>
          \A i \in LiveIdx : \A t \in DOMAIN overwrites[plan[i].id] :
              LET c == plan[i].id
              IN \/ t \in DOMAIN before[c] /\ overwrites[c][t] = before[c][t]
                 \/ \E j \in DOMAIN plan[i].entries :
                       /\ plan[i].entries[j].target = t
                       /\ plan[i].entries[j].overwrite = overwrites[c][t]

\* an error-free pass that followed an apply cut off after it had changed
\* the platform, and that still had overwrites to write or to remove
C25_Witness ==
    /\ pc = "done" /\ pass = 3 /\ errors = 0
    /\ overwrites # before
    /\ applied + removed >= 2

----------------------------------------------------------------------------
(* Properties of the slash commands and of the Airtable client *)

\* the steps of build_permission_plan
BuildPcs == Keys \cup {"baseline", "rules"}

\* C21  Planning and diffing are read-only: no step of build_permission_plan
\* and no diff_permission_plan changes a live overwrite, sends an update to
\* Airtable or changes the tables there (the builder only adds to the plan
\* and to its list of pending updates, the Differ only produces its lines);
\* and as long as /preview-permissions runs the live overwrites are those it
\* found, no write is pending or done and no update has been sent.
C21_ReadOnly ==
    [][/\ cpc \in BuildPcs =>
            /\ overwrites' = overwrites
            /\ sent' = sent
            /\ remote' = remote
       /\ (pc # "previewed" /\ pc' = "previewed") =>
            /\ overwrites' = overwrites
            /\ sent' = sent
            /\ remote' = remote
            /\ plan' = plan
            /\ airtable_updates' = airtable_updates
       /\ cmd' = "preview" =>
            /\ overwrites' = firstLive'
            /\ sent' = <<>>
            /\ pc' \in {"idle", "previewed"}
            /\ cpc' # "flush"]_vars

\* a /preview-permissions that has answered, with changes to show and updates
\* queued by the builder
C21_Witness ==
    /\ cmd = "preview" /\ cpc = "replied"
    /\ SumLen(plan) = 2
    /\ airtable_updates # <<>>
    /\ \E n \in DOMAIN lines : lines[n].marker # "="
    /\ DOMAIN overwrites[2] = {2}

\* C22  Configuration error is fatal and clean: a command for a guild without
\* configuration raises at get_airtable, and a fetch of a table that is not
\* in _cache, with Airtable failing and no copy of the table in the disk
\* cache, raises too, also after the baseline loop has added entries; once
\* the RuntimeError is raised the command has made no platform write and sent
\* no update, and it only ends.
C22_ConfigurationErrorFatal ==
    [][/\ (cmd = "none" /\ cmd' # "none" /\ ~configured) => cpc' = "raised"
       /\ (/\ cpc \in Keys /\ cpc' # cpc
           /\ cpc \notin DOMAIN mem /\ ~reachable /\ cpc \notin DOMAIN disk)
             => cpc' = "raised"
       /\ cpc' = "raised" =>
            /\ pc' = "idle"
            /\ log' = <<>>
            /\ sent' = <<>>
            /\ overwrites' = firstLive'
       /\ (cpc = "raised" /\ cpc' # "raised") =>
            /\ cmd' = "none"
            /\ overwrites' = overwrites
            /\ sent' = <<>>]_vars

\* /sync-permissions has raised at the fetch of the access rules, after the
\* baseline loop had added an entry and queued an update
C22_Witness ==
    /\ cmd = "sync" /\ cpc = "raised"
    /\ configured
    /\ origin["access_rules"] = "none" /\ origin["channels"] # "none"
    /\ SumLen(plan) = 1
    /\ airtable_updates # <<>>

\* C23  Flush ordering and isolation: an update is sent only by
\* /sync-permissions and only after apply_permission_plan has returned; when
\* the command answers after an apply, the updates attempted are the pending
\* updates, each once and in their order, whatever attempts failed (a
\* command that had no entry to apply has sent none); and a step that sends
\* an update changes no live overwrite and none of the three counters.
C23_FlushAfterApply ==
    [][/\ sent' # <<>> => (cmd' = "sync" /\ pc' = "done")
       /\ (cmd' = "sync" /\ cpc' = "replied") =>
            IF pc' = "done"
            THEN /\ Len(sent') = Len(airtable_updates')
                 /\ \A i \in DOMAIN sent' : sent'[i].update = airtable_updates'[i]
            ELSE sent' = <<>>
       /\ (sent' # sent /\ sent' # <<>>) =>
            /\ overwrites' = overwrites
            /\ applied' = applied /\ removed' = removed /\ errors' = errors
            /\ log' = log]_vars

\* /sync-permissions has answered after an apply with a failed write and a
\* flush whose first update failed and whose second update went through
C23_Witness ==
    /\ cmd = "sync" /\ cpc = "replied" /\ pc = "done"
    /\ errors >= 1 /\ applied >= 1
    /\ Len(sent) = 2
    /\ ~sent[1].ok /\ sent[2].ok

\* C29  Fresh data on sync: the plan of a /sync-permissions is built only
\* from tables fetched from Airtable during that run.  Violated: with Airtable
\* failing, _fetch takes the table from the disk cache an earlier fetch wrote.
C29_FreshDataOnSync ==
    (cmd = "sync" /\ cpc = "built") =>
        \A key \in Keys : origin[key] = "airtable"

----------------------------------------------------------------------------
(* Properties of the local store *)

\* the thread is inside the with block of its call
InLock(t) == tpc[t] \in {"load", "mkstemp", "dump", "replace"}

\* C27  No lost update in the local store: two mutating calls for the same
\* guild made by two threads of one process are never inside their with
\* blocks together, and when both have returned the file holds the levels
\* found before the calls with the change of the call that entered first and
\* then the change of the other call.
C27_NoLostUpdate ==
    /\ \A t, u \in Threads : (InLock(t) /\ InLock(u)) => t = u
    /\ (\A t \in Threads : tpc[t] = "returned") =>
          LET first == Modify(store_op[lock_order[1]], store_start)
              second == Modify(store_op[lock_order[2]], first.data)
          IN /\ Len(lock_order) = 2
             /\ ~first.raised /\ ~second.raised
             /\ store_file = FileOf(second.data)

\* set_permission of two attributes of one level by two threads: both have
\* returned and the file shows both values
C27_Witness ==
    /\ \A t \in Threads : tpc[t] = "returned"
    /\ \A t \in Threads : store_op[t].name = "set_permission" /\ store_op[t].value # "None"
    /\ store_op[1].attr # store_op[2].attr
    /\ \A t \in Threads :
          /\ store_op[t].attr \in DOMAIN store_file.data["A"]
          /\ store_file.data["A"][store_op[t].attr] = (store_op[t].value = "True")
    /\ \A t \in Threads : store_file.data # Modify(store_op[t], store_start).data

\* C28  Atomic save: the target file, when it exists, always holds a complete
\* JSON text, and a reader without the lock never fails on it; the target
\* changes only in the os.replace of a _save that then returns, and then to the
\* complete new content; a _save that raises, and a crash at any of its steps,
\* leave the target as it was.
C28_AtomicSave ==
    [][/\ store_file'.exists => store_file'.complete
       /\ ~reader_seen'.raised
       /\ store_file' # store_file =>
            \E t \in Threads :
                /\ tpc[t] = "replace" /\ tpc'[t] = "returned"
                /\ store_file' = FileOf(store_levels[t])
       /\ \A t \in Threads :
            (tpc[t] \in {"mkstemp", "dump", "replace"} /\ tpc'[t] \in {"raised", "crashed"})
               => store_file' = store_file]_vars

\* the process has died while one thread was writing its temporary file, after
\* the save of the other thread had replaced the target; the target is read
\* afterwards
C28_Witness ==
    /\ \E t \in Threads :
          /\ tpc[t] = "crashed"
          /\ store_tmp[t].exists /\ ~store_tmp[t].complete
    /\ store_file.exists
    /\ store_file.data # store_start
    /\ reader_seen = [data |-> store_file.data, raised |-> FALSE]

----------------------------------------------------------------------------
(* Properties of the bundle assignment *)

\* C30  Exclusive groups on bundle assignment: for a guild with an Airtable
\* configuration, when _apply_bundle has returned the member holds every role
\* of the bundle and no role outside the bundle that is in the exclusive group
\* of a bundle role.  Violated: the RuntimeError of a Roles table that cannot
\* be fetched is taken for a missing configuration, and the roles are added
\* with the conflicting role left in place.
C30_ExclusiveGroups ==
    (configured /\ bpc = "returned") =>
        /\ bundle_roles \subseteq member_roles
        /\ \A r \in member_roles \ bundle_roles :
              \A b \in bundle_roles :
                  ExclusiveGroup(b) # "None" => ExclusiveGroup(r) # ExclusiveGroup(b)

----------------------------------------------------------------------------
(* The client registry and /setup airtable:                                *)
(* services/airtable_client.py, cogs/setup.py                              *)

MaxClients == 3

\* the text a field of the modal can hold, character by character
TokenInputs == {<<"p", "a", "t", "1">>, <<"p", "a", "t", "2", " ">>}
BaseIdInputs == {<<"a", "p", "p", "1">>, <<" ", "a", "p", "p", "2">>,
                 <<"b", "a", "s", "e">>}

\* str.strip(): leading and trailing whitespace is dropped
RECURSIVE LStrip(_)
LStrip(text) ==
    IF text # <<>> /\ Head(text) = " " THEN LStrip(Tail(text)) ELSE text

RECURSIVE RStrip(_)
RStrip(text) ==
    IF text # <<>> /\ text[Len(text)] = " "
    THEN RStrip(SubSeq(text, 1, Len(text) - 1))
    ELSE text

Strip(text) == RStrip(LStrip(text))

\* str.startswith(prefix)
StartsWith(text, prefix) ==
    /\ Len(text) >= Len(prefix)
    /\ SubSeq(text, 1, Len(prefix)) = prefix

\* AirtableClient(token, base_id, guild_id): a new object with an empty cache
AirtableClient(token, base_id, serial) ==
    [serial |-> serial, token |-> token, base_id |-> base_id, cache |-> Empty]

\* a reset that leaves the entry in the registry
ResetClientKeeps(reg, g) == reg

\* reset_client: _clients.pop(guild_id, None)
ResetClient(reg, g) == [reg EXCEPT ![g] = NoClient]

\* nothing but the registry and the configuration files is touched
RegistryFrame ==
    UNCHANGED <<plan, present, overwrites, lines, applyVars, recVars,
                buildVars, resolveVars, cmdVars, storeVars, bundleVars,
                backoffVars, termVars, importVars>>

\* get_airtable(guild_id)
GetAirtable(g) ==
    /\ IF clients[g] = NoClient
       THEN IF config_file[g] = NoConfig
            THEN /\ reg_last' = [op |-> "get", guild |-> g, ok |-> FALSE,
                                 token |-> <<>>, base_id |-> <<>>]
                 /\ UNCHANGED <<clients, instances, handed>>
            ELSE /\ instances < MaxClients
                 /\ instances' = instances + 1
                 /\ clients' = [clients EXCEPT ![g] =
                        AirtableClient(config_file[g].airtable_token,
                                       config_file[g].airtable_base_id,
                                       instances + 1)]
                 /\ handed' = [handed EXCEPT ![g] = @ \cup {instances + 1}]
                 /\ reg_last' = [op |-> "get", guild |-> g, ok |-> TRUE,
                                 token |-> <<>>, base_id |-> <<>>]
       ELSE /\ handed' = [handed EXCEPT ![g] = @ \cup {clients[g].serial}]
            /\ reg_last' = [op |-> "get", guild |-> g, ok |-> TRUE,
                            token |-> <<>>, base_id |-> <<>>]
            /\ UNCHANGED <<clients, instances>>
    /\ UNCHANGED config_file
    /\ RegistryFrame

\* the holder of a client reads a table: _fetch stores it in the client's _cache
ClientFetch(g) ==
    /\ clients[g] # NoClient
    /\ clients[g].cache = Empty
    /\ clients' = [clients EXCEPT ![g].cache = Put(Empty, "roles", "rev1")]
    /\ reg_last' = [op |-> "fetch", guild |-> g, ok |-> TRUE,
                    token |-> <<>>, base_id |-> <<>>]
    /\ UNCHANGED <<config_file, instances, handed>>
    /\ RegistryFrame

\* AirtableSetupModal.on_submit; answers: check_missing returns
OnSubmit(g, token_text, base_id_text, answers) ==
    LET token == Strip(token_text)
        base_id == Strip(base_id_text)
    IN  /\ IF ~StartsWith(base_id, <<"a", "p", "p">>) \/ ~answers
           THEN /\ reg_last' = [op |-> "setup", guild |-> g, ok |-> FALSE,
                                token |-> token_text, base_id |-> base_id_text]
                /\ UNCHANGED <<clients, config_file, handed>>
           ELSE /\ config_file' = [config_file EXCEPT ![g] =
                       [airtable_token |-> token, airtable_base_id |-> base_id]]
                /\ clients' = ResetClient(clients, g)
                /\ handed' = [handed EXCEPT ![g] = {}]
                /\ reg_last' = [op |-> "setup", guild |-> g, ok |-> TRUE,
                                token |-> token_text, base_id |-> base_id_text]
        /\ UNCHANGED instances
        /\ RegistryFrame

\* /setup import-discord of a configured guild; ok: _run_import returns
ImportDiscord(g, ok) ==
    /\ config_file[g] # NoConfig
    /\ IF ok
       THEN /\ clients' = ResetClient(clients, g)
            /\ handed' = [handed EXCEPT ![g] = {}]
       ELSE UNCHANGED <<clients, handed>>
    /\ reg_last' = [op |-> "import", guild |-> g, ok |-> ok,
                    token |-> <<>>, base_id |-> <<>>]
    /\ UNCHANGED <<config_file, instances>>
    /\ RegistryFrame

\* the configuration an earlier run of the bot has saved
SavedConfigs ==
    {NoConfig,
     [airtable_token |-> <<"p", "a", "t", "1">>,
      airtable_base_id |-> <<"a", "p", "p", "1">>]}

\* no plan, no command, no store call, no bundle
Quiet ==
    /\ plan = <<>>
    /\ present = Channels
    /\ overwrites = [c \in Channels |-> Empty]
    /\ before = overwrites
    /\ firstLive = overwrites
    /\ pc = "idle" /\ ci = 0 /\ phase = "set" /\ k = 0 /\ stale = <<>>
    /\ attempt = 0 /\ sleeps = 0 /\ delay = 1
    /\ applied = 0 /\ removed = 0 /\ errors = 0
    /\ log = <<>> /\ resp = "none"
    /\ lines = <<>>
    /\ pass = 1
    /\ NoRecords
    /\ NoCall
    /\ NoCommand
    /\ NoStore
    /\ NoBundle
    /\ configured = TRUE /\ reachable = TRUE /\ remote = "rev1"
    /\ mem = Empty /\ disk = Empty

\* the bot has started: _clients = {}
InitRegistry ==
    /\ Quiet
    /\ NoBackoff
    /\ calls = 0
    /\ NoImport
    /\ clients = [g \in Guilds |-> NoClient]
    /\ config_file \in [Guilds -> SavedConfigs]
    /\ instances = 0
    /\ handed = [g \in Guilds |-> {}]
    /\ reg_last = [op |-> "none", guild |-> 0, ok |-> TRUE,
                   token |-> <<>>, base_id |-> <<>>]

NextRegistry ==
    \/ \E g \in Guilds : GetAirtable(g)
    \/ \E g \in Guilds : ClientFetch(g)
    \/ \E g \in Guilds, t \in TokenInputs, b \in BaseIdInputs, a \in BOOLEAN :
            OnSubmit(g, t, b, a)
    \/ \E g \in Guilds, ok \in BOOLEAN : ImportDiscord(g, ok)

SpecRegistry == InitRegistry /\ [][NextRegistry]_vars

\* the client of guild g was built from the credentials stored for g
BuiltFromStored(g) ==
    /\ clients[g].token = config_file[g].airtable_token
    /\ clients[g].base_id = config_file[g].airtable_base_id

\* what one registry operation may do to the registry and the stored credentials
RegistryStep ==
    \A g \in Guilds :
        reg_last'.guild = g =>
            /\ (reg_last'.op = "get" /\ clients[g] # NoClient) =>
                    /\ clients' = clients
                    /\ clients[g].serial \in handed'[g]
            /\ (reg_last'.op = "get" /\ clients[g] = NoClient /\ reg_last'.ok) =>
                    /\ clients'[g].serial = instances + 1
                    /\ clients'[g].token = config_file[g].airtable_token
                    /\ clients'[g].base_id = config_file[g].airtable_base_id
            /\ (reg_last'.op = "setup" /\ reg_last'.ok) =>
                    /\ clients'[g] = NoClient
                    /\ config_file'[g].airtable_token = Strip(reg_last'.token)
                    /\ config_file'[g].airtable_base_id = Strip(reg_last'.base_id)
            /\ (reg_last'.op = "setup" /\ ~reg_last'.ok) =>
                    /\ clients' = clients
                    /\ config_file' = config_file

\* C31: between two reset_client calls for a guild get_airtable returns one and
\* the same client instance, and returning it leaves the instance and its cache
\* as they are; a /setup airtable that validates stores the submitted
\* credentials and drops the registry entry, so that every client in the
\* registry, the one the next get_airtable builds included, was built from the
\* stored credentials; a /setup airtable whose validation fails changes neither
\* the stored credentials nor the registry.
C31_ClientRegistry ==
    /\ [](\A g \in Guilds :
            /\ Cardinality(handed[g]) <= 1
            /\ clients[g] # NoClient => BuiltFromStored(g))
    /\ [][RegistryStep]_vars

\* a client with a filled cache was returned again, for a guild whose second
\* client was built from credentials that /setup airtable had saved
C31_Witness ==
    /\ reg_last.op = "get" /\ reg_last.ok /\ reg_last.guild = 1
    /\ clients[1].serial >= 2
    /\ clients[1].cache # Empty
    /\ clients[1].base_id = <<"a", "p", "p", "2">>
    /\ clients[1].token = <<"p", "a", "t", "2">>

----------------------------------------------------------------------------
(* Properties of the counters and of the frame of an apply *)

\* the writes log holds for channel c
LogOf(c) == {n \in DOMAIN log : log[n].ch = c}

\* C32  Count accounting: when an apply has returned, every live plan channel
\* has had one write per overwrite that was stale when the apply began and one
\* write per planned entry, no other channel has had a write, and applied +
\* removed + errors is the number of these writes; a write that has returned
\* adds 1 to exactly one counter (a successful set to applied, a successful
\* removal to removed, a failed write to errors) and leaves the other two; and
\* a failed attempt never leaves the apply: it is retried or the write returns
\* and is counted.
C32_CountAccounting ==
    /\ [](pc = "done" =>
            /\ applied + removed + errors = Len(log)
            /\ \A n \in DOMAIN log : \E i \in LiveIdx : log[n].ch = plan[i].id
            /\ \A i \in LiveIdx :
                  Cardinality(LogOf(plan[i].id)) =
                      Cardinality(StaleSet(before, i)) + Len(plan[i].entries))
    /\ [][pc = "returned" =>
            <<applied', removed', errors'>> =
                IF resp # "ok" THEN <<applied, removed, errors + 1>>
                ELSE IF phase = "set" THEN <<applied + 1, removed, errors>>
                ELSE <<applied, removed + 1, errors>>]_vars
    /\ [][(pc = "write" /\ resp' # "ok") => pc' \in {"write", "returned"}]_vars

\* an apply that has returned with a set, a removal and a failed write counted
C32_Witness ==
    /\ pc = "done"
    /\ applied >= 1 /\ removed >= 1 /\ errors >= 1

\* the keys of plan.entries
PlanKeys == {plan[i].id : i \in DOMAIN plan}

\* C33  Frame of apply: every write of an apply, finished or pending, goes to
\* a channel that is a key of plan.entries, and from the first line of the
\* apply to its return every channel that is no key of the plan, one that
\* still holds overwrites of earlier rules included, has the overwrites it had
\* when the apply began; a step changes the overwrites of one channel only,
\* the key whose write the platform has accepted.
C33_FrameOfApply ==
    /\ [](/\ \A n \in DOMAIN log : log[n].ch \in PlanKeys
          /\ pc \in {"write", "returned"} => CurrentWrite.ch \in PlanKeys
          /\ pc \in {"write", "returned", "done"} =>
                \A c \in Channels \ PlanKeys : overwrites[c] = before[c])
    /\ [][\A c \in Channels :
            overwrites'[c] # overwrites[c] =>
                /\ pc = "write" /\ resp' = "ok"
                /\ c = plan[ci].id /\ c \in PlanKeys]_vars

\* an apply has returned after a successful write, and a live channel that is
\* no key of the plan still holds the overwrites it had
C33_Witness ==
    /\ pc = "done"
    /\ applied + removed >= 1
    /\ \E c \in present \ PlanKeys :
          /\ DOMAIN overwrites[c] # {}
          /\ overwrites[c] = before[c]

----------------------------------------------------------------------------
(* The backoff sleeps of one _set_with_backoff call: services/sync.py *)

\* the HTTPException carries no retry_after attribute
NoInterval == -1

\* what a rate-limit signal can carry as retry_after (seconds)
RetryAfters == {NoInterval, 3}

\* mutant: the fallback delay is slept whatever the signal carries
RetryAfterFallback(e_retry_after, d) == d

\* retry_after = float(getattr(e, "retry_after", delay))
RetryAfter(e_retry_after, d) ==
    IF e_retry_after = NoInterval THEN d ELSE e_retry_after

\* one awaited set_permissions call of _set_with_backoff; a rate-limit
\* signal carries e_retry_after
Backoff(r, e_retry_after) ==
    /\ r # "rate_limited" => e_retry_after = NoInterval
    /\ AttemptEffect(r)
    /\ signals' = IF r = "rate_limited" THEN Append(signals, e_retry_after) ELSE signals
    /\ slept' = IF r = "rate_limited"
                THEN Append(slept, RetryAfter(e_retry_after, delay))
                ELSE slept
    /\ UNCHANGED <<recVars, cmdVars, storeVars, bundleVars, registryVars,
                   termVars, importVars, resolveVars, buildVars>>

\* the first write of an apply is watched: a plan of one channel
InitBackoff ==
    /\ Init
    /\ Len(plan) = 1

NextBackoff ==
    \/ Apply
    \/ \E r \in Responses, e_retry_after \in RetryAfters : Backoff(r, e_retry_after)

SpecBackoff == InitBackoff /\ [][NextBackoff]_vars

\* 2 to the power n
RECURSIVE Pow2(_)
Pow2(n) == IF n = 0 THEN 1 ELSE 2 * Pow2(n - 1)

\* C34  Backoff schedule: a write sleeps once for every rate-limit signal it
\* has received, at most three times; the sleep that follows the n-th signal
\* lasts the interval the signal carries, and 2^(n-1) seconds when it carries
\* none (the fallback doubles on every signal, whether it was used or not), so
\* that a write whose three signals carry no interval sleeps 1, 2 and 4
\* seconds.
C34_BackoffSchedule ==
    /\ Len(slept) = Len(signals)
    /\ Len(slept) = sleeps
    /\ Len(slept) <= max_retries
    /\ pc \in {"write", "returned"} => attempt >= Len(signals)
    /\ \A n \in DOMAIN slept :
          slept[n] = IF signals[n] = NoInterval THEN Pow2(n - 1) ELSE signals[n]
    /\ (Len(signals) = 3 /\ \A n \in DOMAIN signals : signals[n] = NoInterval)
          => slept = <<1, 2, 4>>

\* a write given up after three rate-limit signals, the second of which
\* carried an interval of 3 seconds: it has slept 1, 3 and 4 seconds
C34_Witness ==
    /\ pc = "returned" /\ resp = "rate_limited"
    /\ signals = <<NoInterval, 3, NoInterval>>
    /\ slept = <<1, 3, 4>>

----------------------------------------------------------------------------
(* Termination of an apply and the number of its platform calls *)

\* one awaited set_permissions call, counted
Call(r) ==
    /\ AttemptEffect(r)
    /\ calls' = calls + 1
    /\ UNCHANGED <<recVars, cmdVars, storeVars, bundleVars, registryVars,
                   backoffVars, importVars, resolveVars, buildVars>>

\* which overwrite is live or planned for a target does not matter here:
\* one overwrite stands for all
TermOverwrite == Overwrite({"view_channel"}, {"send_messages"})

\* no, one or two live overwrites on a channel
TermLiveMaps == {[t \in 1..n |-> TermOverwrite] : n \in 0..Cardinality(Targets)}

InitTerm ==
    /\ Init
    /\ overwrites \in [Channels -> TermLiveMaps]
    /\ \A i \in DOMAIN plan : \A j \in DOMAIN plan[i].entries :
          plan[i].entries[j].overwrite = TermOverwrite

NextTerm ==
    \/ Apply
    \/ \E r \in Responses : Call(r)
    \/ Count

\* the platform answers every awaited call, and the event loop resumes the
\* coroutine when _set_with_backoff has returned
SpecTerm ==
    /\ InitTerm /\ [][NextTerm]_vars
    /\ WF_vars(\E r \in Responses : Call(r))
    /\ WF_vars(Count)

\* the writes an apply that began in the live state owm makes: one per stale
\* overwrite and one per entry of every plan channel that is live
RECURSIVE WritesDue(_, _)
WritesDue(owm, I) ==
    IF I = {} THEN 0
    ELSE LET i == CHOOSE x \in I : TRUE
         IN Cardinality(StaleSet(owm, i)) + Len(plan[i].entries)
                + WritesDue(owm, I \ {i})

\* C35  Termination: an apply that has begun returns, whatever the platform
\* answers to each call (success, rate limit, other error), and from its first
\* line to its return it has awaited at most max_retries = 3 platform calls for
\* each stale overwrite and each planned entry of the live plan channels, at
\* most 3 for the pending write included.
C35_Termination ==
    /\ (pc \in {"write", "returned"}) ~> (pc = "done")
    /\ [](pc \in {"write", "returned", "done"} =>
            /\ calls <= max_retries * WritesDue(before, LiveIdx)
            /\ calls <= max_retries * Len(log) + attempt
            /\ attempt <= max_retries)

\* an apply has returned after three writes, one of which was given up after
\* three rate-limit signals: it has made at least five calls
C35_Witness ==
    /\ pc = "done"
    /\ Len(log) = 3
    /\ errors >= 1
    /\ calls >= 5
    /\ calls <= 9

----------------------------------------------------------------------------
(* Properties of set_permission *)

\* the levels new are the levels old but for attribute attr of level
SameButFor(new, old, level, attr) ==
    /\ DOMAIN new = DOMAIN old
    /\ \A l \in DOMAIN old :
          /\ l # level => new[l] = old[l]
          /\ \A a \in Attrs \ {attr} :
                /\ a \in DOMAIN new[l] <=> a \in DOMAIN old[l]
                /\ a \in DOMAIN old[l] => new[l][a] = old[l][a]

\* C36  set_permission: a call for a level the stored levels hold returns
\* with the value stored under the attribute of that level (True or False),
\* or with the attribute key absent from it (None; the stored levels are then
\* the same as before when the key was absent), and with every other level
\* and attribute as stored before; a call for a level the stored levels do not
\* hold raises KeyError at its check and the file is left as it was.
C36_SetPermission ==
    [][\A t \in Threads :
        store_op[t].name = "set_permission" =>
            \A old \in {Load(store_file).data} :
                /\ (tpc[t] = "replace" /\ tpc'[t] = "returned") =>
                      \A new \in {store_file'.data} :
                          /\ store_op[t].level \in DOMAIN old
                          /\ store_file'.exists /\ store_file'.complete
                          /\ SameButFor(new, old, store_op[t].level, store_op[t].attr)
                          /\ store_op[t].value = "None" =>
                                /\ store_op[t].attr \notin DOMAIN new[store_op[t].level]
                                /\ store_op[t].attr \notin DOMAIN old[store_op[t].level]
                                       => new = old
                          /\ store_op[t].value # "None" =>
                                /\ store_op[t].attr \in DOMAIN new[store_op[t].level]
                                /\ new[store_op[t].level][store_op[t].attr]
                                       = (store_op[t].value = "True")
                /\ (tpc[t] = "load" /\ tpc'[t] \notin {"load", "crashed"}) =>
                      /\ tpc'[t] = "raised" <=> store_op[t].level \notin DOMAIN old
                      /\ store_file' = store_file]_vars

\* one thread's set_permission for a level that does not exist has raised,
\* and the other thread's set_permission with None for an attribute the level
\* did not hold has returned: the levels are those found before the calls
C36_Witness ==
    \E t, u \in Threads :
        /\ tpc[t] = "raised" /\ store_op[t].name = "set_permission"
        /\ store_op[t].level \notin DOMAIN store_start
        /\ tpc[u] = "returned" /\ store_op[u].name = "set_permission"
        /\ store_op[u].value = "None"
        /\ store_op[u].attr \notin DOMAIN store_start[store_op[u].level]
        /\ store_file.exists /\ store_file.data = store_start

----------------------------------------------------------------------------
(* Properties of the corrections a build queues *)

\* C37  One correction per record per pass (as the claim states it): when
\* build_permission_plan has returned, plan.airtable_updates holds at most one
\* update for any record of any table, however many category baselines and
\* access rules reference the record.  Violated: _resolve runs once per
\* reference and appends the correction each time.
C37_OneCorrectionPerRecord ==
    pc = "built" =>
        \A a, b \in DOMAIN airtable_updates :
            (/\ airtable_updates[a].table = airtable_updates[b].table
             /\ airtable_updates[a].rec = airtable_updates[b].rec)
                => a = b

----------------------------------------------------------------------------
(* Properties of the flush of a sync *)

\* C38  Every queued correction reaches the record store (as the claim states
\* it): when /sync-permissions has built its plan and has answered, every
\* update queued in plan.airtable_updates during the build has been submitted
\* to the record store, in order, also when the plan has no overwrite entry.
\* Violated: with no entry in the plan the command answers and returns before
\* flush_updates.
C38_EveryCorrectionFlushed ==
    (cmd = "sync" /\ cpc = "replied") =>
        /\ Len(sent) = Len(airtable_updates)
        /\ \A n \in DOMAIN sent : sent[n].update = airtable_updates[n]

----------------------------------------------------------------------------
(* Preview and apply of one plan on one live state:                        *)
(* cogs/permissions.py, services/sync.py                                   *)

\* /preview-permissions has answered: the lines diff_permission_plan returns
\* for the plan and the live state are shown, and nothing is written
Preview ==
    /\ pc = "idle"
    /\ lines = <<>>
    /\ lines' = DiffLines(plan, present, overwrites)
    /\ UNCHANGED <<plan, present, overwrites, applyVars>>
    /\ UNCHANGED <<recVars, outerVars, resolveVars, buildVars>>

\* /sync-permissions on the plan and the live state the preview was made of
ApplyPreviewed ==
    /\ lines # <<>>
    /\ Apply

NextPreview ==
    \/ Preview
    \/ ApplyPreviewed
    \/ \E r \in Responses : Attempt(r)
    \/ Count

SpecPreview == Init /\ [][NextPreview]_vars

\* the lines of the Differ that stand for a write: every line but the warning
\* of a channel that is not found
WriteLines == SelectSeq(lines, LAMBDA l : l.marker # "notfound")

\* the write a line of the Differ announces
KindOf(l) == IF l.marker = "stale" THEN "remove" ELSE "set"

\* the write w is the one the line l announces
Announced(w, l) ==
    /\ w.ch = l.ch
    /\ w.kind = KindOf(l)
    /\ w.target = l.target
    /\ w.kind = "set" => w.idx = l.idx

\* C39  Preview agrees with apply: for one plan and one live state, the writes
\* the Applier issues are, one for one and in the same order, the lines of the
\* Differ: a remove-overwrite write for every (channel, target) reported as
\* stale and for no other pair, a set-overwrite write for every planned entry
\* that has a line and for no other entry; the write that is pending is the one
\* the next line announces, and when the apply returns no line is left over.
C39_PreviewAgreesWithApply ==
    (lines # <<>> /\ pc \in {"write", "returned", "done"}) =>
        \A wl \in {WriteLines} :
            /\ Len(log) <= Len(wl)
            /\ \A n \in DOMAIN log : Announced(log[n], wl[n])
            /\ pc \in {"write", "returned"} =>
                    /\ Len(log) < Len(wl)
                    /\ Announced(CurrentWrite, wl[Len(log) + 1])
            /\ pc = "done" => Len(log) = Len(wl)

\* an apply has returned after a preview that showed a stale overwrite, a
\* planned entry and a channel that is not found; a write of the apply failed
C39_Witness ==
    /\ pc = "done"
    /\ \E n \in DOMAIN lines : lines[n].marker = "notfound"
    /\ \E n \in DOMAIN lines : lines[n].marker = "stale"
    /\ \E n \in DOMAIN lines : lines[n].marker \in {"changed", "unchanged"}
    /\ \E n \in DOMAIN log : log[n].kind = "remove" /\ ~log[n].ok
    /\ Len(log) >= 2

----------------------------------------------------------------------------
(* /setup import-discord: _run_import and _reconcile, cogs/setup.py        *)

MaxObjects == 2     \* Discord objects of a guild, @everyone not counted
MaxRecords == 1     \* records in the three tables before the first import
MaxRuns == 2        \* imports run one after the other

ImportNames == {"X", "Y"}

\* str(obj.id), str(did)
IdStr(n) == <<"0", "1", "2", "3", "4", "5", "6", "7", "8", "9">>[n + 1]

\* the @everyone role: guild.roles always holds it, first
Everyone == [id |-> 0, name |-> "@everyone"]

\* skip_names of the _reconcile call for a table
SkipNames(key) == IF key = "roles" THEN {"@everyone"} ELSE {}

Max(S) == CHOOSE x \in S : \A y \in S : y <= x

\* by_discord_id.get(d): the last record of the table whose id field is d,
\* as its position in the table (0: none); empty id fields are not indexed
RecByDiscordId(table, d) ==
    LET S == {i \in DOMAIN table : table[i].discord_id = d}
    IN IF d = "" \/ S = {} THEN 0 ELSE Max(S)

\* by_name.get(nm): the last record of the table whose name field is nm
RecByName(table, nm) ==
    LET S == {i \in DOMAIN table : table[i].name = nm}
    IN IF nm = "" \/ S = {} THEN 0 ELSE Max(S)

\* the branch of the loop body an object takes, decided on the records read
\* at the start of the call
Decide(table, obj) ==
    LET d == IdStr(obj.id)
        i == RecByDiscordId(table, d)
        j == RecByName(table, obj.name)
    IN IF i # 0
       THEN IF table[i].name # obj.name
            THEN [op |-> "update", rec |-> table[i].id, field |-> "name",
                  name |-> obj.name, discord_id |-> d]
            ELSE [op |-> "skip", rec |-> table[i].id, field |-> "",
                  name |-> obj.name, discord_id |-> d]
       ELSE IF j # 0
       THEN [op |-> "update", rec |-> table[j].id, field |-> "discord_id",
             name |-> obj.name, discord_id |-> d]
       ELSE [op |-> "create", rec |-> 0, field |-> "",
             name |-> obj.name, discord_id |-> d]

\* the objects the loop does not pass over
Considered(objects, skip) == SelectSeq(objects, LAMBDA o : o.name \notin skip)

Decisions(table, objects, skip) ==
    LET c == Considered(objects, skip)
    IN [n \in DOMAIN c |-> Decide(table, c[n])]

\* table.batch_create(to_create): new records, with new record ids
BatchCreate(table, to_create) ==
    table \o [n \in DOMAIN to_create |->
                [id |-> Len(table) + n, name |-> to_create[n].name,
                 discord_id |-> to_create[n].discord_id]]

\* one update of batch_update: the one field of the one record is set
UpdateRecord(table, u) ==
    [n \in DOMAIN table |->
        IF table[n].id # u.rec THEN table[n]
        ELSE IF u.field = "name" THEN [table[n] EXCEPT !.name = u.name]
        ELSE [table[n] EXCEPT !.discord_id = u.discord_id]]

\* table.batch_update(to_update): the updates in list order
RECURSIVE BatchUpdate(_, _)
BatchUpdate(table, to_update) ==
    IF to_update = <<>> THEN table
    ELSE BatchUpdate(UpdateRecord(table, Head(to_update)), Tail(to_update))

\* _reconcile(table, discord_objects, name_field, id_field, skip_names): the
\* table it leaves and the counts it returns
Reconcile(table, objects, skip) ==
    LET decs == Decisions(table, objects, skip)
        to_create == SelectSeq(decs, LAMBDA x : x.op = "create")
        to_update == SelectSeq(decs, LAMBDA x : x.op = "update")
        skipped == SelectSeq(decs, LAMBDA x : x.op = "skip")
    IN [table |-> BatchUpdate(BatchCreate(table, to_create), to_update),
        created |-> Len(to_create),
        updated |-> Len(to_update),
        unchanged |-> Len(skipped),
        considered |-> Len(decs)]

\* _run_import: the three _reconcile calls; guild and tables are otherwise
\* left alone between two imports
RunImport ==
    /\ Len(imp_runs) < MaxRuns
    /\ LET res == [key \in ImportKeys |->
                     Reconcile(imp_tables[key], imp_guild[key], SkipNames(key))]
       IN /\ imp_tables' = [key \in ImportKeys |-> res[key].table]
          /\ imp_runs' = Append(imp_runs,
                [key \in ImportKeys |->
                    [created |-> res[key].created, updated |-> res[key].updated,
                     unchanged |-> res[key].unchanged,
                     considered |-> res[key].considered]])
    /\ UNCHANGED imp_guild
    /\ UNCHANGED <<plan, present, overwrites, lines, applyVars, recVars, buildVars,
                   resolveVars, cmdVars, storeVars, bundleVars, registryVars,
                   backoffVars, termVars>>

\* the Discord objects of a guild, in the order the guild lists them: ids are
\* unique, names are not
ImportObjects == [id : 1..MaxObjects, name : ImportNames, key : ImportKeys]

ObjectLists ==
    {s \in UNION {[1..n -> ImportObjects] : n \in 0..MaxObjects} :
        \A a, b \in DOMAIN s : a # b => s[a].id # s[b].id}

Plain(s) == [n \in DOMAIN s |-> [id |-> s[n].id, name |-> s[n].name]]

\* guild.roles, guild.categories and the channels that are no category
GuildOf(s) ==
    [key \in ImportKeys |->
        (IF key = "roles" THEN <<Everyone>> ELSE <<>>) \o
        Plain(SelectSeq(s, LAMBDA o : o.key = key))]

\* the records the tables hold before the first import: any name or none, any
\* Discord ID or none
ImportRecords ==
    [name : ImportNames \cup {""},
     discord_id : {""} \cup {IdStr(n) : n \in 1..MaxObjects},
     key : ImportKeys]

RecordLists == UNION {[1..n -> ImportRecords] : n \in 0..MaxRecords}

Numbered(s) ==
    [n \in DOMAIN s |-> [id |-> n, name |-> s[n].name, discord_id |-> s[n].discord_id]]

TablesOf(s) ==
    [key \in ImportKeys |-> Numbered(SelectSeq(s, LAMBDA r : r.key = key))]

InitImport ==
    /\ Quiet
    /\ NoRegistry
    /\ NoBackoff
    /\ calls = 0
    /\ imp_guild \in {GuildOf(s) : s \in ObjectLists}
    /\ imp_tables \in {TablesOf(s) : s \in RecordLists}
    /\ imp_runs = <<>>

NextImport == RunImport

SpecImport == InitImport /\ [][NextImport]_vars

\* C40  Import idempotence (as the claim states it): in every import created +
\* updated + unchanged is the number of Discord objects considered, for each
\* table, and a second import with the guild and the tables left as the first
\* one left them creates no record and updates no record, for every roster,
\* rosters with one display name on two objects included.  Violated: two
\* objects of one name take turns in writing their id into the one record of
\* that name.
C40_ImportIdempotence ==
    /\ \A n \in DOMAIN imp_runs : \A key \in ImportKeys :
          imp_runs[n][key].created + imp_runs[n][key].updated
            + imp_runs[n][key].unchanged = imp_runs[n][key].considered
    /\ Len(imp_runs) >= 2 =>
          \A key \in ImportKeys :
              /\ imp_runs[2][key].created = 0
              /\ imp_runs[2][key].updated = 0

====
